---- MODULE Spec2Model ----
(***************************************************************************)
(* Noteman: the HTML -> Markdown normalizer of the browser extension       *)
(* (extension/html-to-markdown.js) and the Markdown -> Notion blocks       *)
(* parser of the worker (src/markdown/parser.ts).                          *)
(*                                                                         *)
(* A string is a sequence of one-character strings; offsets are 0-based as *)
(* in the source, so the character at offset k of s is s[k + 1].           *)
(***************************************************************************)
EXTENDS Integers, Sequences, FiniteSets, TLC

VARIABLES
    pc,        \* position of the running call
    text,      \* parseInlineFormatting: its argument
    result,    \* parseInlineFormatting: the spans it returned
    markdown,  \* markdownToBlocks: its argument
    lines,     \* markdownToBlocks: markdown.split('\n')
    i,         \* markdownToBlocks: the line index of the main loop
    blocks,    \* markdownToBlocks: the blocks pushed so far
    passes,    \* markdownToBlocks: passes of the main loop taken so far
    html,      \* htmlToMarkdown: its argument, with its type
    dom,       \* htmlToMarkdown: the div that innerHTML fills from the argument
    domFail,   \* htmlToMarkdown: where the DOM raises during this call
    out,       \* htmlToMarkdown: what the call returned
    now,       \* the worker: the clock, [s |-> seconds, ms |-> milliseconds of the second]
    recent_pages,       \* D1: the rows of table recent_pages
    whitelist_pages,    \* D1: the rows of table whitelist_pages
    whitelist_parents,  \* D1: the rows of table whitelist_parents
    sessions,  \* D1: the rows of table sessions
    notion,    \* Notion: the children of each page and the requests received
    call,      \* the worker: the call running or completed last, and their number
    pages,     \* getRecentPages: the rows it returned last
    request,   \* authMiddleware: the cookie and the header of the request
    response   \* authMiddleware: what the request was answered

\* the variables of the extension and of the parser
parser == <<pc, text, result, markdown, lines, i, blocks, passes, html, dom, domFail, out>>

\* the variables of the worker behind the parser
backend ==
    <<now, recent_pages, whitelist_pages, whitelist_parents, sessions, notion, call,
      pages, request, response>>

vars == <<parser, backend>>

----------------------------------------------------------------------------
(* Bounds of the model *)

\* longest inline text, counted in fragments of InlineFragments
MaxFragments == 3

\* most lines of a Markdown input
MaxLines == 3

\* passes of the main loop of markdownToBlocks followed in one call
MaxPasses == 5

----------------------------------------------------------------------------
(* Strings *)

NL == "\n"

\* the backtick character
BT == "backtick"

Min(S) == CHOOSE x \in S : \A y \in S : x <= y

Max(S) == CHOOSE x \in S : \A y \in S : x >= y

\* s.slice(a, b) for 0 <= a and b <= s.length
Slice(s, a, b) == IF b <= a THEN <<>> ELSE SubSeq(s, a + 1, b)

\* s.slice(a)
SliceFrom(s, a) == Slice(s, a, Len(s))

\* the literal p occurs in s at offset k
At(s, k, p) == k >= 0 /\ k + Len(p) <= Len(s) /\ SubSeq(s, k + 1, k + Len(p)) = p

\* s.startsWith(p)
StartsWith(s, p) == At(s, 0, p)

\* no line terminator in s[a .. b - 1]: what a run of '.' can match
NoNewline(s, a, b) == \A k \in a .. b - 1 : s[k + 1] # NL

RECURSIVE Concat(_)
\* the strings of a sequence joined without a separator
Concat(ss) == IF ss = <<>> THEN <<>> ELSE Head(ss) \o Concat(Tail(ss))

RECURSIVE Join(_, _)
\* ss.join(sep)
Join(ss, sep) ==
    IF ss = <<>> THEN <<>>
    ELSE IF Len(ss) = 1 THEN Head(ss)
    ELSE Head(ss) \o sep \o Join(Tail(ss), sep)

----------------------------------------------------------------------------
(* parseInlineFormatting: the candidate scans *)

\* /OPEN(.+?)CLOSE/ tried at offset s: the offset of the closing literal of the
\* shortest match that starts at s, or -1 when none starts there
LazyCloseAt(t, s, open, close) ==
    IF ~At(t, s, open) THEN -1
    ELSE LET from == s + Len(open)
             ends == {e \in from + 1 .. Len(t) - Len(close) :
                          At(t, e, close) /\ NoNewline(t, from, e)}
         IN  IF ends = {} THEN -1 ELSE Min(ends)

RECURSIVE MatchAllLazy(_, _, _, _, _)
\* text.matchAll(/OPEN(.+?)CLOSE/g) from lastIndex `from`: leftmost matches,
\* each the shortest at its start, the scan resuming at the end of each match
MatchAllLazy(t, from, open, close, tag) ==
    LET starts == {s \in from .. Len(t) - 1 : LazyCloseAt(t, s, open, close) # -1}
    IN  IF starts = {} THEN <<>>
        ELSE LET s == Min(starts)
                 e == LazyCloseAt(t, s, open, close)
             IN  <<[start |-> s, end |-> e + Len(close),
                    content |-> Slice(t, s + Len(open), e),
                    link |-> <<>>, kind |-> tag]>>
                 \o MatchAllLazy(t, e + Len(close), open, close, tag)

\* /(?<!\*)\*([^*]+?)\*(?!\*)/ tried at offset s: the offset of the closing
\* asterisk, or -1. [^*] also matches a line terminator.
StarItalicCloseAt(t, s) ==
    IF ~At(t, s, <<"*">>) \/ At(t, s - 1, <<"*">>) THEN -1
    ELSE LET stars == {e \in s + 1 .. Len(t) - 1 : t[e + 1] = "*"}
         IN  IF stars = {} THEN -1
             ELSE LET e == Min(stars)
                  IN  IF e >= s + 2 /\ ~At(t, e + 1, <<"*">>) THEN e ELSE -1

RECURSIVE MatchAllStarItalic(_, _)
MatchAllStarItalic(t, from) ==
    LET starts == {s \in from .. Len(t) - 1 : StarItalicCloseAt(t, s) # -1}
    IN  IF starts = {} THEN <<>>
        ELSE LET s == Min(starts)
                 e == StarItalicCloseAt(t, s)
             IN  <<[start |-> s, end |-> e + 1, content |-> Slice(t, s + 1, e),
                    link |-> <<>>, kind |-> "italic_star"]>>
                 \o MatchAllStarItalic(t, e + 1)

\* the offsets e1 of "](" that close a link text opened at s and are followed by
\* a non-empty target and a ")" on the same line
LinkMids(t, s) ==
    {e1 \in s + 2 .. Len(t) - 4 :
        /\ At(t, e1, <<"]", "(">>)
        /\ NoNewline(t, s + 1, e1)
        /\ \E e2 \in e1 + 3 .. Len(t) - 1 : t[e2 + 1] = ")" /\ NoNewline(t, e1 + 2, e2)}

\* the offset of the ")" that closes the target opened after e1
LinkClose(t, e1) ==
    Min({e2 \in e1 + 3 .. Len(t) - 1 : t[e2 + 1] = ")" /\ NoNewline(t, e1 + 2, e2)})

RECURSIVE MatchAllLink(_, _)
\* text.matchAll(/\[(.+?)\]\((.+?)\)/g)
MatchAllLink(t, from) ==
    LET starts == {s \in from .. Len(t) - 1 : At(t, s, <<"[">>) /\ LinkMids(t, s) # {}}
    IN  IF starts = {} THEN <<>>
        ELSE LET s  == Min(starts)
                 e1 == Min(LinkMids(t, s))
                 e2 == LinkClose(t, e1)
             IN  <<[start |-> s, end |-> e2 + 1, content |-> Slice(t, s + 1, e1),
                    link |-> Slice(t, e1 + 2, e2), kind |-> "link"]>>
                 \o MatchAllLink(t, e2 + 1)

\* the six scans in source order, each over the whole text
ScanOrder == <<"bold_italic", "bold", "italic_star", "italic_underscore", "code", "link">>

ScanMatches(t, kind) ==
    CASE kind = "bold_italic" ->
             MatchAllLazy(t, 0, <<"*", "*", "*">>, <<"*", "*", "*">>, kind)
      [] kind = "bold" -> MatchAllLazy(t, 0, <<"*", "*">>, <<"*", "*">>, kind)
      [] kind = "italic_star" -> MatchAllStarItalic(t, 0)
      [] kind = "italic_underscore" -> MatchAllLazy(t, 0, <<"_">>, <<"_">>, kind)
      [] kind = "code" -> MatchAllLazy(t, 0, <<BT>>, <<BT>>, kind)
      [] kind = "link" -> MatchAllLink(t, 0)

\* allMatches.some(m => m.start <= match.index && m.end >= match.index + match[0].length)
AlreadyMatched(all, m) ==
    \E k \in 1 .. Len(all) : all[k].start <= m.start /\ all[k].end >= m.end

RECURSIVE PushUnlessMatched(_, _)
\* the loop of one scan: push each match unless an entry of allMatches covers it
PushUnlessMatched(all, ms) ==
    IF ms = <<>> THEN all
    ELSE PushUnlessMatched(
             IF AlreadyMatched(all, Head(ms)) THEN all ELSE Append(all, Head(ms)),
             Tail(ms))

RECURSIVE CollectFrom(_, _, _)
CollectFrom(t, all, k) ==
    IF k > Len(ScanOrder) THEN all
    ELSE CollectFrom(t, PushUnlessMatched(all, ScanMatches(t, ScanOrder[k])), k + 1)

\* allMatches as it stands before the sort
CollectMatches(t) == CollectFrom(t, <<>>, 1)

RECURSIVE InsertByStart(_, _)
InsertByStart(sorted, m) ==
    IF sorted = <<>> THEN <<m>>
    ELSE IF Head(sorted).start <= m.start
         THEN <<Head(sorted)>> \o InsertByStart(Tail(sorted), m)
         ELSE <<m>> \o sorted

\* allMatches left in the order of the scans
SortByStart_Unsorted(all) == all

RECURSIVE SortByStart(_)
\* allMatches.sort((a, b) => a.start - b.start): Array.prototype.sort is stable
SortByStart(all) ==
    IF all = <<>> THEN <<>>
    ELSE InsertByStart(SortByStart(SubSeq(all, 1, Len(all) - 1)), all[Len(all)])

----------------------------------------------------------------------------
(* parseInlineFormatting: building the result *)

\* a RichTextItem without annotations; from/to record the source interval
PlainSpan(t, a, b) ==
    [content |-> Slice(t, a, b), annotated |-> FALSE,
     bold |-> FALSE, italic |-> FALSE, code |-> FALSE,
     has_link |-> FALSE, link |-> <<>>, kind |-> "plain", from |-> a, to |-> b]

\* a RichTextItem that loses the target of a link
FormattedSpan_NoLink(m) ==
    [content |-> m.content, annotated |-> TRUE,
     bold |-> m.kind \in {"bold_italic", "bold"},
     italic |-> m.kind \in {"bold_italic", "italic_star", "italic_underscore"},
     code |-> m.kind = "code",
     has_link |-> FALSE, link |-> <<>>,
     kind |-> m.kind, from |-> m.start, to |-> m.end]

\* the RichTextItem of an accepted match
FormattedSpan(m) ==
    [content |-> m.content, annotated |-> TRUE,
     bold |-> m.kind \in {"bold_italic", "bold"},
     italic |-> m.kind \in {"bold_italic", "italic_star", "italic_underscore"},
     code |-> m.kind = "code",
     has_link |-> m.link # <<>>, link |-> m.link,
     kind |-> m.kind, from |-> m.start, to |-> m.end]

\* a build loop that skips nothing
SkipOverlapping_Never(m, pos) == FALSE

\* whether the build loop skips match m at position pos
SkipOverlapping(m, pos) == m.start < pos

RECURSIVE BuildResult(_, _, _, _)
\* the loop over the sorted matches, then the remaining plain text
BuildResult(t, ms, pos, res) ==
    IF ms = <<>>
    THEN IF pos < Len(t) THEN Append(res, PlainSpan(t, pos, Len(t))) ELSE res
    ELSE LET m == Head(ms)
         IN  IF SkipOverlapping(m, pos) THEN BuildResult(t, Tail(ms), pos, res)
             ELSE BuildResult(t, Tail(ms), m.end,
                      (IF m.start > pos THEN Append(res, PlainSpan(t, pos, m.start)) ELSE res)
                          \o <<FormattedSpan(m)>>)

\* the result as the build loop leaves it, empty when it pushed nothing
parseInlineFormatting_NoFallback(t) ==
    BuildResult(t, SortByStart(CollectMatches(t)), 0, <<>>)

\* parseInlineFormatting(text): the whole text as one plain span when the
\* build loop pushed nothing
parseInlineFormatting(t) ==
    LET res == BuildResult(t, SortByStart(CollectMatches(t)), 0, <<>>)
    IN  IF Len(res) = 0 THEN <<PlainSpan(t, 0, Len(t))>> ELSE res

----------------------------------------------------------------------------
(* mapLanguage *)

UpperCase == <<"A", "B", "C", "D", "E", "F", "G", "H", "I", "J", "K", "L", "M",
               "N", "O", "P", "Q", "R", "S", "T", "U", "V", "W", "X", "Y", "Z">>

LowerCase == <<"a", "b", "c", "d", "e", "f", "g", "h", "i", "j", "k", "l", "m",
               "n", "o", "p", "q", "r", "s", "t", "u", "v", "w", "x", "y", "z">>

LowerChar(c) ==
    IF \E k \in 1 .. Len(UpperCase) : UpperCase[k] = c
    THEN LowerCase[CHOOSE k \in 1 .. Len(UpperCase) : UpperCase[k] = c]
    ELSE c

\* s.toLowerCase()
ToLowerCase(s) == [k \in 1 .. Len(s) |-> LowerChar(s[k])]

PlainText == <<"p", "l", "a", "i", "n", " ", "t", "e", "x", "t">>

\* the lower-case keys that `mapping`, an object literal, inherits from
\* Object.prototype: their values are truthy and are not strings
InheritedKeys ==
    { <<"c", "o", "n", "s", "t", "r", "u", "c", "t", "o", "r">>,
      <<"_", "_", "p", "r", "o", "t", "o", "_", "_">> }

InheritedValue == <<"[object]">>

\* the alias table: mapping[normalized] || normalized
LanguageAlias(s) ==
    CASE s = <<"j", "s">> -> <<"j", "a", "v", "a", "s", "c", "r", "i", "p", "t">>
      [] s = <<"t", "s">> -> <<"t", "y", "p", "e", "s", "c", "r", "i", "p", "t">>
      [] s = <<"p", "y">> -> <<"p", "y", "t", "h", "o", "n">>
      [] s = <<"r", "b">> -> <<"r", "u", "b", "y">>
      [] s = <<"s", "h">> -> <<"b", "a", "s", "h">>
      [] s = <<"y", "m", "l">> -> <<"y", "a", "m", "l">>
      [] s = <<"m", "d">> -> <<"m", "a", "r", "k", "d", "o", "w", "n">>
      [] s \in InheritedKeys -> InheritedValue
      [] OTHER -> s

validLanguages ==
    {
      <<"a", "b", "a", "p">>, <<"a", "r", "d", "u", "i", "n", "o">>,
      <<"b", "a", "s", "h">>, <<"b", "a", "s", "i", "c">>, <<"c">>,
      <<"c", "l", "o", "j", "u", "r", "e">>,
      <<"c", "o", "f", "f", "e", "e", "s", "c", "r", "i", "p", "t">>, <<"c", "p", "p">>,
      <<"c", "s", "h", "a", "r", "p">>, <<"c", "s", "s">>, <<"d", "a", "r", "t">>,
      <<"d", "i", "f", "f">>, <<"d", "o", "c", "k", "e", "r">>,
      <<"e", "l", "i", "x", "i", "r">>, <<"e", "l", "m">>,
      <<"e", "r", "l", "a", "n", "g">>, <<"f", "l", "o", "w">>,
      <<"f", "o", "r", "t", "r", "a", "n">>, <<"f", "s", "h", "a", "r", "p">>,
      <<"g", "h", "e", "r", "k", "i", "n">>, <<"g", "l", "s", "l">>, <<"g", "o">>,
      <<"g", "r", "a", "p", "h", "q", "l">>, <<"g", "r", "o", "o", "v", "y">>,
      <<"h", "a", "s", "k", "e", "l", "l">>, <<"h", "t", "m", "l">>,
      <<"j", "a", "v", "a">>, <<"j", "a", "v", "a", "s", "c", "r", "i", "p", "t">>,
      <<"j", "s", "o", "n">>, <<"j", "u", "l", "i", "a">>,
      <<"k", "o", "t", "l", "i", "n">>, <<"l", "a", "t", "e", "x">>,
      <<"l", "e", "s", "s">>, <<"l", "i", "s", "p">>,
      <<"l", "i", "v", "e", "s", "c", "r", "i", "p", "t">>, <<"l", "u", "a">>,
      <<"m", "a", "k", "e", "f", "i", "l", "e">>,
      <<"m", "a", "r", "k", "d", "o", "w", "n">>, <<"m", "a", "r", "k", "u", "p">>,
      <<"m", "a", "t", "l", "a", "b">>, <<"m", "e", "r", "m", "a", "i", "d">>,
      <<"n", "i", "x">>, <<"o", "b", "j", "e", "c", "t", "i", "v", "e", "-", "c">>,
      <<"o", "c", "a", "m", "l">>, <<"p", "a", "s", "c", "a", "l">>,
      <<"p", "e", "r", "l">>, <<"p", "h", "p">>,
      <<"p", "l", "a", "i", "n", " ", "t", "e", "x", "t">>,
      <<"p", "o", "w", "e", "r", "s", "h", "e", "l", "l">>,
      <<"p", "r", "o", "l", "o", "g">>, <<"p", "r", "o", "t", "o", "b", "u", "f">>,
      <<"p", "y", "t", "h", "o", "n">>, <<"r">>, <<"r", "e", "a", "s", "o", "n">>,
      <<"r", "u", "b", "y">>, <<"r", "u", "s", "t">>, <<"s", "a", "s", "s">>,
      <<"s", "c", "a", "l", "a">>, <<"s", "c", "h", "e", "m", "e">>,
      <<"s", "c", "s", "s">>, <<"s", "h", "e", "l", "l">>, <<"s", "q", "l">>,
      <<"s", "w", "i", "f", "t">>, <<"t", "y", "p", "e", "s", "c", "r", "i", "p", "t">>,
      <<"v", "b", ".", "n", "e", "t">>, <<"v", "e", "r", "i", "l", "o", "g">>,
      <<"v", "h", "d", "l">>,
      <<"v", "i", "s", "u", "a", "l", " ", "b", "a", "s", "i", "c">>,
      <<"w", "e", "b", "a", "s", "s", "e", "m", "b", "l", "y">>, <<"x", "m", "l">>,
      <<"y", "a", "m", "l">>
    }

\* a mapLanguage that does not lower-case its argument
mapLanguage_CaseSensitive(lang) ==
    LET mapped == LanguageAlias(lang)
    IN  IF mapped \in validLanguages THEN mapped ELSE PlainText

mapLanguage(lang) ==
    LET mapped == LanguageAlias(ToLowerCase(lang))
    IN  IF mapped \in validLanguages THEN mapped ELSE PlainText

----------------------------------------------------------------------------
(* markdownToBlocks: line tests *)

TAB == "\t"

\* a character \s matches and trim() removes
IsSpace(c) == c \in {" ", TAB, NL}

IsDigit(c) == c \in {"0", "1", "2", "3", "4", "5", "6", "7", "8", "9"}

\* the length of the longest prefix of s made of characters of class P
RECURSIVE SpaceRun(_)
SpaceRun(s) == IF s # <<>> /\ IsSpace(Head(s)) THEN 1 + SpaceRun(Tail(s)) ELSE 0

RECURSIVE DigitRun(_)
DigitRun(s) == IF s # <<>> /\ IsDigit(Head(s)) THEN 1 + DigitRun(Tail(s)) ELSE 0

RECURSIVE TrimEnd(_)
TrimEnd(s) ==
    IF s # <<>> /\ IsSpace(s[Len(s)]) THEN TrimEnd(SubSeq(s, 1, Len(s) - 1)) ELSE s

\* s.trim()
Trim(s) == TrimEnd(SliceFrom(s, SpaceRun(s)))

\* the character of s at offset k is of the class, false past the end
SpaceAt(s, k) == k < Len(s) /\ IsSpace(s[k + 1])

RECURSIVE SplitFrom(_, _, _)
SplitFrom(s, k, cur) ==
    IF k > Len(s) THEN <<cur>>
    ELSE IF s[k] = NL THEN <<cur>> \o SplitFrom(s, k + 1, <<>>)
    ELSE SplitFrom(s, k + 1, Append(cur, s[k]))

\* s.split('\n'): never empty, the empty string gives one empty line
SplitLines(s) == SplitFrom(s, 1, <<>>)

Fence == <<BT, BT, BT>>

\* /^[-*]\s/.test(l)
IsBullet(l) == Len(l) >= 2 /\ l[1] \in {"-", "*"} /\ IsSpace(l[2])

\* /^\s{2,}[-*]\s/.test(l)
IsIndentedBullet(l) ==
    LET n == SpaceRun(l)
    IN  n >= 2 /\ Len(l) >= n + 2 /\ l[n + 1] \in {"-", "*"} /\ IsSpace(l[n + 2])

\* l.replace(/^\s{2,}[-*]\s/, '') for a line that matches
StripIndentedBullet(l) == SliceFrom(l, SpaceRun(l) + 2)

\* /^\s+>\s?/.test(l)
IsIndentedQuote(l) ==
    LET n == SpaceRun(l) IN n >= 1 /\ Len(l) >= n + 1 /\ l[n + 1] = ">"

\* l.replace(/^\s+>\s?/, '') for a line that matches
StripIndentedQuote(l) ==
    LET n == SpaceRun(l)
    IN  SliceFrom(l, IF SpaceAt(l, n + 1) THEN n + 2 ELSE n + 1)

\* /^\d+\.\s/.test(l)
IsNumbered(l) ==
    LET n == DigitRun(l)
    IN  n >= 1 /\ Len(l) >= n + 2 /\ l[n + 1] = "." /\ IsSpace(l[n + 2])

\* l.replace(/^\d+\.\s/, '') for a line that matches
StripNumbered(l) == SliceFrom(l, DigitRun(l) + 2)

IsQuote(l) == StartsWith(l, <<">", " ">>)

\* a test that takes only the empty line for blank
IsBlank_EmptyOnly(l) == l = <<>>

\* line.trim() === ''
IsBlank(l) == Trim(l) = <<>>

\* the condition of the paragraph loop on one line
ParagraphLine(l) ==
    /\ ~IsBlank(l)
    /\ ~StartsWith(l, <<"#">>)
    /\ ~StartsWith(l, Fence)
    /\ ~IsQuote(l)
    /\ ~IsBullet(l)
    /\ ~IsNumbered(l)

----------------------------------------------------------------------------
(* markdownToBlocks: blocks *)

\* A block is built in two steps that the source takes at once: the
\* constructors below record the text a block hands to parseInlineFormatting
\* (src), and SegmentBlocks fills rich_text from it when the block is pushed.

\* a block whose text goes through parseInlineFormatting
TextBlock(type, t) ==
    [type |-> type, rich_text |-> <<>>, src |-> t, segmented |-> TRUE,
     language |-> <<>>, has_children |-> FALSE, children |-> <<>>]

\* a bulleted_list_item with the children field set
ParentBlock(t, children) ==
    [type |-> "bulleted_list_item", rich_text |-> <<>>, src |-> t, segmented |-> TRUE,
     language |-> <<>>, has_children |-> TRUE, children |-> children]

\* a code block whose content goes through parseInlineFormatting
CodeBlock_Segmented(content, language) ==
    [type |-> "code", rich_text |-> parseInlineFormatting(content),
     src |-> content, segmented |-> FALSE, language |-> mapLanguage(language),
     has_children |-> FALSE, children |-> <<>>]

\* a code block: one span with the content as it is, and the mapped language
CodeBlock(content, language) ==
    [type |-> "code", rich_text |-> <<PlainSpan(content, 0, Len(content))>>,
     src |-> content, segmented |-> FALSE, language |-> mapLanguage(language),
     has_children |-> FALSE, children |-> <<>>]

RECURSIVE SegmentBlocks(_)
\* rich_text: parseInlineFormatting(src) of each block and of its children
SegmentBlocks(bs) ==
    IF bs = <<>> THEN <<>>
    ELSE LET b == Head(bs)
         IN  <<IF b.segmented
               THEN [b EXCEPT !.rich_text = parseInlineFormatting(b.src),
                              !.children = SegmentBlocks(b.children)]
               ELSE b>>
             \o SegmentBlocks(Tail(bs))

\* the loop conditions of the inner loops, by the construct they collect
LineIs(what, l) ==
    CASE what = "code" -> ~StartsWith(l, Fence)
      [] what = "bullet" -> IsBullet(l)
      [] what = "nested_bullet" -> IsIndentedBullet(l)
      [] what = "nested_quote" -> IsIndentedQuote(l)
      [] what = "numbered" -> IsNumbered(l)
      [] what = "quote" -> IsQuote(l)
      [] what = "paragraph" -> ParagraphLine(l)

RECURSIVE RunEnd(_, _, _)
\* the index where `while (i < lines.length && cond(lines[i])) i++` stops, from k
RunEnd(ls, k, what) ==
    IF k < Len(ls) /\ LineIs(what, ls[k + 1]) THEN RunEnd(ls, k + 1, what) ELSE k

\* the lines ls[a .. b - 1]
LinesFrom(ls, a, b) == [k \in 1 .. b - a |-> ls[a + k]]

\* a bullet item that consumes its nested quote lines and pushes no quote
BulletItem_QuoteDropped(ls, k) ==
    LET k1 == RunEnd(ls, k + 1, "nested_bullet")
        nested == [n \in 1 .. k1 - (k + 1) |->
                      TextBlock("bulleted_list_item", StripIndentedBullet(ls[k + 1 + n]))]
    IN  [next |-> RunEnd(ls, k1, "nested_quote"),
         block |-> IF Len(nested) > 0 THEN ParentBlock(SliceFrom(ls[k + 1], 2), nested)
                   ELSE TextBlock("bulleted_list_item", SliceFrom(ls[k + 1], 2))]

\* a bullet item that sets the children field also when nothing is nested
BulletItem_ChildrenAlways(ls, k) ==
    LET k1 == RunEnd(ls, k + 1, "nested_bullet")
        k2 == RunEnd(ls, k1, "nested_quote")
        nested == [n \in 1 .. k1 - (k + 1) |->
                      TextBlock("bulleted_list_item", StripIndentedBullet(ls[k + 1 + n]))]
        nestedQuoteLines == [n \in 1 .. k2 - k1 |-> StripIndentedQuote(ls[k1 + n])]
    IN  [next |-> k2,
         block |-> ParentBlock(SliceFrom(ls[k + 1], 2),
                               IF Len(nestedQuoteLines) > 0
                               THEN Append(nested, TextBlock("quote",
                                               Join(nestedQuoteLines, <<NL>>)))
                               ELSE nested)]

\* one item of a bullet run starting at line k: the item, its nested bullets,
\* then its nested quote lines; the index after them and the block pushed
BulletItem(ls, k) ==
    LET itemText == SliceFrom(ls[k + 1], 2)
        k1 == RunEnd(ls, k + 1, "nested_bullet")
        k2 == RunEnd(ls, k1, "nested_quote")
        nested == [n \in 1 .. k1 - (k + 1) |->
                      TextBlock("bulleted_list_item", StripIndentedBullet(ls[k + 1 + n]))]
        nestedQuoteLines == [n \in 1 .. k2 - k1 |-> StripIndentedQuote(ls[k1 + n])]
        children ==
            IF Len(nestedQuoteLines) > 0
            THEN Append(nested, TextBlock("quote", Join(nestedQuoteLines, <<NL>>)))
            ELSE nested
    IN  [next |-> k2,
         block |-> IF Len(children) > 0 THEN ParentBlock(itemText, children)
                   ELSE TextBlock("bulleted_list_item", itemText)]

RECURSIVE BulletRun(_, _, _)
\* the whole bullet run from line k: the index after it and the blocks pushed
BulletRun(ls, k, pushed) ==
    IF k < Len(ls) /\ IsBullet(ls[k + 1])
    THEN LET item == BulletItem(ls, k)
         IN  BulletRun(ls, item.next, Append(pushed, item.block))
    ELSE [next |-> k, pushed |-> pushed]

----------------------------------------------------------------------------
(* The DOM that innerHTML builds *)

\* getAttribute of an attribute that is not set
Null == <<"NULL">>

TextNode(d) ==
    [nodeType |-> "text", tag |-> "#text", data |-> d, attrs |-> {}, children |-> <<>>]

CommentNode(d) ==
    [nodeType |-> "comment", tag |-> "#comment", data |-> d, attrs |-> {}, children |-> <<>>]

\* attrs is a set of <<name, value>> pairs, at most one per name
Element(tag, attrs, children) ==
    [nodeType |-> "element", tag |-> tag, data |-> <<>>, attrs |-> attrs,
     children |-> children]

\* the div that htmlToMarkdown and stripHtml create and fill through innerHTML
Root(forest) == Element("div", {}, forest)

\* el.getAttribute(name)
GetAttribute(el, name) ==
    IF \E p \in el.attrs : p[1] = name
    THEN (CHOOSE p \in el.attrs : p[1] = name)[2]
    ELSE Null

\* node.childNodes: the contents of a template are not its children
ChildNodes(node) == IF node.tag = "template" THEN <<>> ELSE node.children

RECURSIVE TextContentOf(_)
\* node.textContent: the data of the text nodes below node, in document order
TextContentOf(cs) ==
    IF cs = <<>> THEN <<>>
    ELSE (IF Head(cs).nodeType = "text" THEN Head(cs).data
          ELSE IF Head(cs).nodeType = "element" THEN TextContentOf(ChildNodes(Head(cs)))
          ELSE <<>>)
         \o TextContentOf(Tail(cs))

textContent(node) == TextContentOf(ChildNodes(node))

RECURSIVE DescendantsOf(_)
\* the elements below a node, in document order
DescendantsOf(cs) ==
    IF cs = <<>> THEN <<>>
    ELSE (IF Head(cs).nodeType = "element"
          THEN <<Head(cs)>> \o DescendantsOf(ChildNodes(Head(cs)))
          ELSE <<>>)
         \o DescendantsOf(Tail(cs))

\* el.querySelectorAll(tag)
querySelectorAll(el, tag) == SelectSeq(DescendantsOf(ChildNodes(el)), LAMBDA d : d.tag = tag)

\* el.children: the element children
ElementChildren(el) == SelectSeq(ChildNodes(el), LAMBDA c : c.nodeType = "element")

----------------------------------------------------------------------------
(* html-to-markdown.js *)

\* a raised exception, as the value of the expression that raised it
Throw == <<"THROW">>

IsWordChar(c) ==
    \/ IsDigit(c) \/ c = "_"
    \/ \E k \in 1 .. Len(LowerCase) : c = LowerCase[k] \/ c = UpperCase[k]

RECURSIVE WordRun(_)
WordRun(s) == IF s # <<>> /\ IsWordChar(Head(s)) THEN 1 + WordRun(Tail(s)) ELSE 0

LanguagePrefix == <<"l", "a", "n", "g", "u", "a", "g", "e", "-">>

\* className.match(/language-(\w+)/)?.[1] || ''
LanguageOfClass(className) ==
    LET hits == {k \in 0 .. Len(className) - Len(LanguagePrefix) :
                    /\ At(className, k, LanguagePrefix)
                    /\ WordRun(SliceFrom(className, k + Len(LanguagePrefix))) >= 1}
    IN  IF hits = {} THEN <<>>
        ELSE LET from == Min(hits) + Len(LanguagePrefix)
             IN  Slice(className, from, from + WordRun(SliceFrom(className, from)))

\* el.className
ClassName(el) == IF GetAttribute(el, "class") = Null THEN <<>> ELSE GetAttribute(el, "class")

\* s.replace(/\|/g, '\\|')
RECURSIVE EscapePipes(_)
EscapePipes(s) ==
    IF s = <<>> THEN <<>>
    ELSE (IF Head(s) = "|" THEN <<"\\", "|">> ELSE <<Head(s)>>) \o EscapePipes(Tail(s))

\* inner.split('\n').map(line => `> ${line}`).join('\n')
QuoteLines(inner) ==
    LET ls == SplitLines(inner)
    IN  Join([k \in 1 .. Len(ls) |-> <<">", " ">> \o ls[k]], <<NL>>)

\* the decimal digits of a positive index
RECURSIVE Decimal(_)
Decimal(n) ==
    LET digit == <<"0", "1", "2", "3", "4", "5", "6", "7", "8", "9">>[(n % 10) + 1]
    IN  IF n < 10 THEN <<digit>> ELSE Append(Decimal(n \div 10), digit)

\* whether the link target is kept: href && !href.startsWith('javascript:')
KeepsHref(href) ==
    /\ href # Null
    /\ href # <<>>
    /\ ~StartsWith(href, <<"j", "a", "v", "a", "s", "c", "r", "i", "p", "t", ":">>)

\* the cell text of processTable: trimmed, with the pipes escaped
CellText(rendered) == EscapePipes(Trim(rendered))

\* rows left at their own length
PadRow_Unpadded(row, maxCols) == row

\* the rows of processTable padded to maxCols
PadRow(row, maxCols) == row \o [k \in 1 .. maxCols - Len(row) |-> <<>>]

\* '| ' + row.join(' | ') + ' |\n'
RowLine(row) == <<"|", " ">> \o Join(row, <<" ", "|", " ">>) \o <<" ", "|", NL>>

\* the lines of the table: the first row, the separator, the other rows
TableLines(rows) ==
    <<RowLine(rows[1]), RowLine([k \in 1 .. Len(rows[1]) |-> <<"-", "-", "-">>])>>
        \o [k \in 1 .. Len(rows) - 1 |-> RowLine(rows[k + 1])]

\* an emphasis marker that is not closed
Emphasis_Unclosed(marker, inner) == marker \o inner

\* the `strong`, `b`, `em` and `i` cases: the child output inside the marker
Emphasis(marker, inner) == marker \o inner \o marker

RECURSIVE processElement(_, _)
RECURSIVE ProcessChildNodes(_, _)
RECURSIVE ListItems(_, _, _)
RECURSIVE TableRows(_)

\* the loop of processNode over childNodes; parent is the tag of their parent
ProcessChildNodes(cs, parent) ==
    IF cs = <<>> THEN <<>>
    ELSE (IF Head(cs).nodeType = "text" THEN Head(cs).data
          ELSE IF Head(cs).nodeType = "element" THEN processElement(Head(cs), parent)
          ELSE <<>>)
         \o ProcessChildNodes(Tail(cs), parent)

processNode(node) == ProcessChildNodes(ChildNodes(node), node.tag)

\* a loop in which every child takes a number, an li or not
ListItems_CountsAll(cs, type, index) ==
    IF cs = <<>> THEN <<>>
    ELSE (IF Head(cs).tag = "li"
          THEN (IF type = "ol" THEN Decimal(index) \o <<".", " ">> ELSE <<"-", " ">>)
               \o Trim(processNode(Head(cs))) \o <<NL>>
          ELSE <<>>)
         \o ListItems(Tail(cs), type, index + 1)

\* the loop of processList over listEl.children, index being the next number
ListItems(cs, type, index) ==
    IF cs = <<>> THEN <<>>
    ELSE IF Head(cs).tag = "li"
    THEN (IF type = "ol" THEN Decimal(index) \o <<".", " ">> ELSE <<"-", " ">>)
         \o Trim(processNode(Head(cs))) \o <<NL>>
         \o ListItems(Tail(cs), type, index + 1)
    ELSE ListItems(Tail(cs), type, index)

processList(listEl, type) == ListItems(ElementChildren(listEl), type, 1)

\* a first loop that keeps the rows without a cell
TableRows_KeepsEmpty(trs) ==
    IF trs = <<>> THEN <<>>
    ELSE LET cellEls == SelectSeq(ElementChildren(Head(trs)),
                                  LAMBDA c : c.tag = "td" \/ c.tag = "th")
         IN  <<[k \in 1 .. Len(cellEls) |-> CellText(processNode(cellEls[k]))]>>
                 \o TableRows(Tail(trs))

\* the first loop of processTable: the cells of every tr that has a td or th
TableRows(trs) ==
    IF trs = <<>> THEN <<>>
    ELSE LET cellEls == SelectSeq(ElementChildren(Head(trs)),
                                  LAMBDA c : c.tag = "td" \/ c.tag = "th")
             cells == [k \in 1 .. Len(cellEls) |-> CellText(processNode(cellEls[k]))]
         IN  (IF Len(cells) > 0 THEN <<cells>> ELSE <<>>) \o TableRows(Tail(trs))

\* maxCols
MaxCols(rows) == Max({0} \cup {Len(rows[k]) : k \in 1 .. Len(rows)})

\* the rows of processTable after `Normalize row lengths`
NormalizedRows(tableEl) ==
    LET rows == TableRows(querySelectorAll(tableEl, "tr"))
    IN  [k \in 1 .. Len(rows) |-> PadRow(rows[k], MaxCols(rows))]

processTable(tableEl) ==
    LET rows == NormalizedRows(tableEl)
    IN  IF Len(rows) = 0 THEN <<>> ELSE Concat(TableLines(rows))

\* the `pre` case: the text of the first code descendant, or of the pre itself
PreBlock(el) ==
    LET codes == querySelectorAll(el, "code")
        lang == IF codes # <<>> THEN LanguageOfClass(ClassName(codes[1])) ELSE <<>>
        code == IF codes # <<>> THEN textContent(codes[1]) ELSE textContent(el)
    IN  <<NL>> \o Fence \o lang \o <<NL>> \o code \o <<NL>> \o Fence \o <<NL>>

\* the `img` case
ImageText(el) ==
    LET alt == IF GetAttribute(el, "alt") = Null THEN <<>> ELSE GetAttribute(el, "alt")
        src == IF GetAttribute(el, "src") = Null THEN <<>> ELSE GetAttribute(el, "src")
    IN  IF alt # <<>> THEN <<"[">> \o alt \o <<"]">>
        ELSE IF src # <<>>
             THEN <<"[", "i", "m", "a", "g", "e", ":", " ">> \o src \o <<"]">>
             ELSE <<>>

\* the `a` case, text being the output of the children
AnchorText(el, txt) ==
    IF KeepsHref(GetAttribute(el, "href"))
    THEN <<"[">> \o txt \o <<"]", "(">> \o GetAttribute(el, "href") \o <<")">>
    ELSE txt

\* an unknown element that is dropped with what it holds
PassThrough_Dropped(el) == <<>>

\* the default case: the output of the children and nothing else
PassThrough(el) == processNode(el)

\* '#' repeated level times, for the h1 .. h6 cases
Hashes(level) == [k \in 1 .. level |-> "#"]

HeadingLevel(tag) ==
    CASE tag = "h1" -> 1 [] tag = "h2" -> 2 [] tag = "h3" -> 3
      [] tag = "h4" -> 4 [] tag = "h5" -> 5 [] tag = "h6" -> 6

processElement(el, parent) ==
    LET tag == el.tag
    IN  CASE tag \in {"strong", "b"} -> Emphasis(<<"*", "*">>, processNode(el))
          [] tag \in {"em", "i"} -> Emphasis(<<"*">>, processNode(el))
          [] tag = "code" ->
                 IF parent = "pre" THEN processNode(el)
                 ELSE <<BT>> \o processNode(el) \o <<BT>>
          [] tag = "a" -> AnchorText(el, processNode(el))
          [] tag = "br" -> <<NL>>
          [] tag = "p" -> processNode(el) \o <<NL, NL>>
          [] tag = "div" -> processNode(el) \o <<NL>>
          [] tag \in {"h1", "h2", "h3", "h4", "h5", "h6"} ->
                 Hashes(HeadingLevel(tag)) \o <<" ">> \o processNode(el) \o <<NL, NL>>
          [] tag \in {"ul", "ol"} -> processList(el, tag) \o <<NL>>
          [] tag = "li" -> processNode(el)
          [] tag = "pre" -> PreBlock(el)
          [] tag = "blockquote" -> QuoteLines(Trim(processNode(el))) \o <<NL, NL>>
          [] tag = "hr" -> <<NL, "-", "-", "-", NL, NL>>
          [] tag \in {"script", "style", "noscript", "template"} -> <<>>
          [] tag = "img" -> ImageText(el)
          [] tag = "table" -> processTable(el) \o <<NL, NL>>
          [] tag \in {"tr", "td", "th", "thead", "tbody", "tfoot"} -> processNode(el)
          [] OTHER -> PassThrough(el)

RECURSIVE RegexStripFrom(_, _)
\* html.replace(/<[^>]*>/g, ''): from each '<' that a '>' follows, through the
\* first '>' after it
RegexStripFrom(s, k) ==
    IF k > Len(s) THEN <<>>
    ELSE LET closes == {e \in k + 1 .. Len(s) : s[e] = ">"}
         IN  IF s[k] = "<" /\ closes # {}
             THEN RegexStripFrom(s, Min(closes) + 1)
             ELSE <<s[k]>> \o RegexStripFrom(s, k + 1)

\* the try block of stripHtml: building the tree may raise
StripHtmlTry(temp, raises) == IF raises THEN Throw ELSE textContent(temp)

\* a stripHtml without its catch block
stripHtml_Uncaught(h, temp, raises) == StripHtmlTry(temp, raises)

\* stripHtml(html), temp being the div that innerHTML fills from html
stripHtml(h, temp, raises) ==
    LET tried == StripHtmlTry(temp, raises)
    IN  IF tried = Throw THEN RegexStripFrom(h, 1) ELSE tried

\* the try block of htmlToMarkdown: building the tree or walking it may raise
HtmlToMarkdownTry(temp, raises) == IF raises THEN Throw ELSE Trim(processNode(temp))

\* an htmlToMarkdown without the test of its argument
htmlToMarkdown_Unguarded(arg, temp, fail) ==
    LET tried == HtmlToMarkdownTry(temp, fail.main # "none")
    IN  IF tried = Throw THEN stripHtml(arg.value, temp, fail.strip) ELSE tried

\* htmlToMarkdown(html): arg is the argument with its type, fail says where
\* the DOM raises (main: in htmlToMarkdown, strip: in stripHtml)
htmlToMarkdown(arg, temp, fail) ==
    IF arg.type # "string" \/ arg.value = <<>> THEN <<>>
    ELSE LET tried == HtmlToMarkdownTry(temp, fail.main # "none")
         IN  IF tried = Throw THEN stripHtml(arg.value, temp, fail.strip) ELSE tried

----------------------------------------------------------------------------
(* Inputs of the inline segmentor *)

\* the pieces inline texts are assembled from: every marker, balanced and
\* unbalanced, plain characters and a line terminator
InlineFragments ==
    { <<"a">>, <<" ">>, <<NL>>,
      <<"*">>, <<"*", "*">>, <<"*", "*", "*">>, <<"_">>, <<BT>>,
      <<"[">>, <<"]", "(", "u", ")">>, <<"]", "(">>, <<")">>,
      <<"*", "*", "b", "*", "*">>, <<"*", "i", "*">>, <<BT, "c", BT>>,
      <<"_", "i", "_">> }

RECURSIVE FragmentTexts(_)
FragmentTexts(n) ==
    IF n = 0 THEN { <<>> }
    ELSE LET shorter == FragmentTexts(n - 1)
         IN  shorter \cup {s \o f : s \in shorter, f \in InlineFragments}

InlineTexts == FragmentTexts(MaxFragments)

----------------------------------------------------------------------------
(* The extension: formatCapturedContent of content.js *)

RECURSIVE EscapeBrackets(_)
\* pageTitle.replace(/\[/g, '\\[').replace(/\]/g, '\\]')
EscapeBrackets(t) ==
    IF t = <<>> THEN <<>>
    ELSE (IF Head(t) \in {"[", "]"} THEN <<"\\", Head(t)>> ELSE <<Head(t)>>)
             \o EscapeBrackets(Tail(t))

\* [escapedTitle](pageUrl)
SourceLink(pageTitle, pageUrl) ==
    <<"[">> \o EscapeBrackets(pageTitle) \o <<"]", "(">> \o pageUrl \o <<")">>

\* the captured lines put as a quote beside the bullet and not under it
formatCapturedContent_Unindented(captured, pageTitle, pageUrl) ==
    LET sourceLink == SourceLink(pageTitle, pageUrl)
        split == SplitLines(captured)
    IN  IF Trim(captured) = <<>> THEN <<"-", " ">> \o sourceLink
        ELSE <<"-", " ">> \o sourceLink \o <<NL>>
                 \o Join([k \in 1 .. Len(split) |-> <<">", " ">> \o split[k]], <<NL>>)

\* formatCapturedContent(markdown, pageTitle, pageUrl): a bullet with the link
\* to the source and, under it, each captured line after '  > '
formatCapturedContent(captured, pageTitle, pageUrl) ==
    LET sourceLink == SourceLink(pageTitle, pageUrl)
        split == SplitLines(captured)
    IN  IF Trim(captured) = <<>> THEN <<"-", " ">> \o sourceLink
        ELSE <<"-", " ">> \o sourceLink \o <<NL>>
                 \o Join([k \in 1 .. Len(split) |-> <<" ", " ", ">", " ">> \o split[k]],
                         <<NL>>)

----------------------------------------------------------------------------
(* The worker: table recent_pages                                           *)

\* LIMIT 50 of the pruning query, and the default limit of getRecentPages
RecentLimit == 50

\* datetime('now'): the clock in whole seconds. Every last_used is written in
\* the one format 'YYYY-MM-DD HH:MM:SS', whose order as text is the order of
\* the seconds, so a last_used is kept as its number of seconds.
SqlSeconds(at) == at.s

\* A table is the sequence of its rows by rowid, the key SQLite gives a row
\* on insertion: one more than the largest rowid of the table.
NextRowid(table) == IF table = <<>> THEN 1 ELSE table[Len(table)].rowid + 1

\* INSERT INTO recent_pages ... ON CONFLICT(page_id) DO UPDATE SET ...
UpsertRow(table, pageId, pageTitle, lastUsed) ==
    IF \E k \in 1 .. Len(table) : table[k].page_id = pageId
    THEN [k \in 1 .. Len(table) |->
             IF table[k].page_id = pageId
             THEN [table[k] EXCEPT !.page_title = pageTitle, !.last_used = lastUsed]
             ELSE table[k]]
    ELSE Append(table, [page_id |-> pageId, page_title |-> pageTitle,
                        last_used |-> lastUsed, rowid |-> NextRowid(table)])

\* SQL leaves the order of rows with equal last_used to the engine: SQLite
\* yields them by rowid, upwards or downwards with the plan it chooses
TieOrders == {"rowid_asc", "rowid_desc"}

\* row r comes before row s under ORDER BY last_used DESC
ComesBefore(r, s, ties) ==
    \/ r.last_used > s.last_used
    \/ /\ r.last_used = s.last_used
       /\ IF ties = "rowid_asc" THEN r.rowid < s.rowid ELSE r.rowid > s.rowid

RECURSIVE SortedRows(_, _, _)
\* the first n rows of the table in the order of ORDER BY last_used DESC
SortedRows(table, n, ties) ==
    IF n = 0 THEN <<>>
    ELSE LET sorted == SortedRows(table, n - 1, ties)
             p == Cardinality({k \in 1 .. Len(sorted) :
                                  ComesBefore(sorted[k], table[n], ties)})
         IN  SubSeq(sorted, 1, p) \o <<table[n]>> \o SubSeq(sorted, p + 1, Len(sorted))

\* SELECT ... FROM recent_pages ORDER BY last_used DESC LIMIT limit
OrderByLastUsedDesc(table, limit, ties) ==
    SubSeq(SortedRows(table, Len(table), ties), 1, Min({limit, Len(table)}))

\* a pruning whose subquery sorts the other way round and keeps the oldest rows
PruneRecent_KeepsOldest(table, ties) ==
    LET sorted == SortedRows(table, Len(table), ties)
        kept == SubSeq(sorted, Len(sorted) - Min({RecentLimit, Len(sorted)}) + 1, Len(sorted))
        keeps == {kept[k].page_id : k \in 1 .. Len(kept)}
    IN  SelectSeq(table, LAMBDA r : r.page_id \in keeps)

\* DELETE FROM recent_pages WHERE page_id NOT IN (SELECT page_id ... LIMIT 50)
PruneRecent(table, ties) ==
    LET kept == OrderByLastUsedDesc(table, RecentLimit, ties)
        keeps == {kept[k].page_id : k \in 1 .. Len(kept)}
    IN  SelectSeq(table, LAMBDA r : r.page_id \in keeps)

getRecentPages(table, limit, ties) ==
    LET selected == OrderByLastUsedDesc(table, limit, ties)
    IN  [k \in 1 .. Len(selected) |->
            [page_id |-> selected[k].page_id,
             page_title |-> selected[k].page_title,
             last_used |-> selected[k].last_used]]

\* the two statements of upsertRecentPage, both run within second `at`
upsertRecentPage(table, pageId, pageTitle, at, ties) ==
    PruneRecent(UpsertRow(table, pageId, pageTitle, SqlSeconds(at)), ties)

----------------------------------------------------------------------------
(* The worker: the text of an instant, and how SQLite orders text          *)

\* the printable characters of ASCII in the order of their codes, from 32
Ascii ==
    <<" ", "!", "\"", "#", "$", "%", "&", "'", "(", ")", "*", "+",
       ",", "-", ".", "/", "0", "1", "2", "3", "4", "5", "6", "7",
       "8", "9", ":", ";", "<", "=", ">", "?", "@", "A", "B", "C",
       "D", "E", "F", "G", "H", "I", "J", "K", "L", "M", "N", "O",
       "P", "Q", "R", "S", "T", "U", "V", "W", "X", "Y", "Z", "[",
       "\\", "]", "^", "_", BT, "a", "b", "c", "d", "e", "f", "g",
       "h", "i", "j", "k", "l", "m", "n", "o", "p", "q", "r", "s",
       "t", "u", "v", "w", "x", "y", "z", "{", "|", "}", "~">>

\* the code of a printable character
CharCode(c) == 31 + (CHOOSE k \in 1 .. Len(Ascii) : Ascii[k] = c)

RECURSIVE PadStart(_, _)
\* String(n).padStart(w, '0') for n of at most w digits
PadStart(n, w) ==
    IF w = 0 THEN <<>> ELSE PadStart(n \div 10, w - 1) \o <<Ascii[17 + (n % 10)]>>

\* the day z of the Unix epoch in the proleptic Gregorian calendar, on UTC
CivilFromDays(z) ==
    LET shifted == z + 719468
        era == shifted \div 146097
        doe == shifted - era * 146097
        yoe == (doe - doe \div 1460 + doe \div 36524 - doe \div 146096) \div 365
        doy == doe - (365 * yoe + yoe \div 4 - yoe \div 100)
        mp == (5 * doy + 2) \div 153
        m == IF mp < 10 THEN mp + 3 ELSE mp - 9
    IN  [y |-> yoe + era * 400 + (IF m <= 2 THEN 1 ELSE 0), m |-> m,
         d |-> doy - (153 * mp + 2) \div 5 + 1]

\* YYYY-MM-DD of an instant
YmdOf(at) ==
    LET date == CivilFromDays(at.s \div (24 * 60 * 60))
    IN  PadStart(date.y, 4) \o <<"-">> \o PadStart(date.m, 2) \o <<"-">>
            \o PadStart(date.d, 2)

\* HH:MM:SS of an instant
HmsOf(at) ==
    LET r == at.s % (24 * 60 * 60)
    IN  PadStart(r \div 3600, 2) \o <<":">> \o PadStart((r % 3600) \div 60, 2)
            \o <<":">> \o PadStart(r % 60, 2)

\* datetime('now') of SQLite: 'YYYY-MM-DD HH:MM:SS', the milliseconds dropped
SqlDatetime(at) == YmdOf(at) \o <<" ">> \o HmsOf(at)

\* Date.prototype.toISOString: 'YYYY-MM-DDTHH:MM:SS.sssZ'
toISOString(at) ==
    YmdOf(at) \o <<"T">> \o HmsOf(at) \o <<".">> \o PadStart(at.ms, 3) \o <<"Z">>

RECURSIVE TextGreater(_, _)
\* a > b on two TEXT values under the BINARY collation: the bytes compared
\* from the left, and a proper prefix the smaller
TextGreater(a, b) ==
    IF a = <<>> THEN FALSE
    ELSE IF b = <<>> THEN TRUE
    ELSE IF Head(a) = Head(b) THEN TextGreater(Tail(a), Tail(b))
    ELSE CharCode(Head(a)) > CharCode(Head(b))

----------------------------------------------------------------------------
(* The worker: src/db/sessions.ts                                          *)

\* SESSION_DURATION_MS, in seconds
SESSION_DURATION == 30 * 24 * 60 * 60

\* new Date(at + seconds * 1000)
Plus(at, seconds) == [s |-> at.s + seconds, ms |-> at.ms]

\* A session is a row [id, created_at, expires_at] of table sessions, the
\* table the set of its rows; id is the UUID crypto.randomUUID() returned.
createSession(table, id, at) ==
    table \cup {[id |-> id, created_at |-> SqlDatetime(at),
                 expires_at |-> toISOString(Plus(at, SESSION_DURATION))]}

\* SELECT id FROM sessions WHERE id = ? AND expires_at > datetime('now')
validateSession(table, sessionId, at) ==
    \E r \in table : r.id = sessionId /\ TextGreater(r.expires_at, SqlDatetime(at))

\* DELETE FROM sessions WHERE expires_at <= datetime('now')
cleanupExpiredSessions(table, at) ==
    {r \in table : TextGreater(r.expires_at, SqlDatetime(at))}

\* DELETE FROM sessions WHERE id = ?
deleteSession(table, sessionId) == {r \in table : r.id # sessionId}

----------------------------------------------------------------------------
(* The worker: src/middleware/auth.ts                                      *)

\* the alphabet of base64 in the order of its values, from 0
Base64Alphabet ==
    <<"A", "B", "C", "D", "E", "F", "G", "H", "I", "J", "K", "L", "M",
      "N", "O", "P", "Q", "R", "S", "T", "U", "V", "W", "X", "Y", "Z",
      "a", "b", "c", "d", "e", "f", "g", "h", "i", "j", "k", "l", "m",
      "n", "o", "p", "q", "r", "s", "t", "u", "v", "w", "x", "y", "z",
      "0", "1", "2", "3", "4", "5", "6", "7", "8", "9", "+", "/">>

Base64Value(c) == (CHOOSE k \in 1 .. 64 : Base64Alphabet[k] = c) - 1

\* the character of a byte of the binary string atob returns; a byte that is
\* no printable character of ASCII is kept as one atom, unequal to them all
CharOf(byte) == IF byte \in 32 .. 126 THEN Ascii[byte - 31] ELSE "byte"

RECURSIVE DecodeSextets(_)
\* the bytes of a run of 6-bit values: three of every four, and of the two or
\* three left over the whole bytes, the bits beyond them dropped
DecodeSextets(d) ==
    IF Len(d) < 2 THEN <<>>
    ELSE IF Len(d) = 2 THEN <<CharOf((d[1] * 64 + d[2]) \div 16)>>
    ELSE IF Len(d) = 3
    THEN LET v == (d[1] * 4096 + d[2] * 64 + d[3]) \div 4
         IN  <<CharOf(v \div 256), CharOf(v % 256)>>
    ELSE LET v == d[1] * 262144 + d[2] * 4096 + d[3] * 64 + d[4]
         IN  <<CharOf(v \div 65536), CharOf((v \div 256) % 256), CharOf(v % 256)>>
                 \o DecodeSextets(SubSeq(d, 5, Len(d)))

\* atob(data), the forgiving base64 decoding: ASCII whitespace removed, one or
\* two '=' removed from the end of a length that is a multiple of four, then
\* a failure on a length of 1 modulo 4 or on a character outside the alphabet
atob(data) ==
    LET stripped == SelectSeq(data, LAMBDA c : c \notin {" ", TAB, NL})
        n == Len(stripped)
        unpadded ==
            IF n % 4 # 0 \/ n = 0 THEN stripped
            ELSE IF stripped[n] = "=" /\ stripped[n - 1] = "=" THEN SubSeq(stripped, 1, n - 2)
            ELSE IF stripped[n] = "=" THEN SubSeq(stripped, 1, n - 1)
            ELSE stripped
        ok == /\ Len(unpadded) % 4 # 1
              /\ \A k \in 1 .. Len(unpadded) :
                    \E v \in 1 .. 64 : Base64Alphabet[v] = unpadded[k]
    IN  [ok |-> ok,
         value |-> IF ok THEN DecodeSextets([k \in 1 .. Len(unpadded) |->
                                                Base64Value(unpadded[k])])
                         ELSE <<>>]

\* credentials.indexOf(':')
ColonIndex(credentials) ==
    LET at == {k \in 1 .. Len(credentials) : credentials[k] = ":"}
    IN  IF at = {} THEN -1 ELSE Min(at) - 1

\* the password cut after the last ':' and not after the first
PasswordOf_AfterLastColon(credentials) ==
    LET at == {k \in 1 .. Len(credentials) : credentials[k] = ":"}
    IN  SliceFrom(credentials, Max(at))

\* credentials.slice(colonIndex + 1) for credentials that hold a ':'
PasswordOf(credentials) == SliceFrom(credentials, ColonIndex(credentials) + 1)

\* A request is [cookie, authorization]: the value of cookie noteman_session,
\* 0 without one, and the Authorization header, empty without one. A response
\* is what the middleware did: the status and headers of the answer it gave
\* itself (status 0 when it gave none), whether it ran next(), the cookie it
\* set (0 when none) and whether it deleted the cookie.
Unauthorized(body, cleared) ==
    [status |-> 401, body |-> body, headers |-> {"WWW-Authenticate"}, next |-> FALSE,
     setCookie |-> 0, deleteCookie |-> cleared]

PassedOn(sessionId, cleared) ==
    [status |-> 0, body |-> "", headers |-> {}, next |-> TRUE, setCookie |-> sessionId,
     deleteCookie |-> cleared]

\* authMiddleware on request req, with c.env.AUTH_PASSWORD, table sessions,
\* the id crypto.randomUUID() would give and the clock: the table and the
\* response it leaves
authMiddleware(req, AUTH_PASSWORD, table, id, at) ==
    LET isValid == req.cookie # 0 /\ validateSession(table, req.cookie, at)
        cleared == req.cookie # 0 /\ ~isValid
        authHeader == req.authorization
        decoded == atob(SliceFrom(authHeader, 6))
        credentials == decoded.value
    IN  IF isValid THEN [sessions |-> table, response |-> PassedOn(0, FALSE)]
        ELSE IF authHeader = <<>> \/ ~StartsWith(authHeader, <<"B", "a", "s", "i", "c", " ">>)
        THEN [sessions |-> table, response |-> Unauthorized("Unauthorized", cleared)]
        ELSE IF ~decoded.ok \/ ColonIndex(credentials) = -1
                    \/ PasswordOf(credentials) # AUTH_PASSWORD
        THEN [sessions |-> table,
              response |-> Unauthorized("Invalid credentials", cleared)]
        ELSE [sessions |-> createSession(table, id, at),
              response |-> PassedOn(id, cleared)]

----------------------------------------------------------------------------
(* Notion: the three operations of the API that src/notion/client.ts calls  *)

\* A page holds a title and its children in order; a block holds the id
\* Notion gave it and its type. Notion numbers the requests it receives, and
\* the k-th block of the children of request r gets the id (r, k); the blocks
\* that were there before any request have r = 0.
NoBlock == [req |-> 0, k |-> 0]

\* the operation that Notion answers with an error during a request, if any
NotionOutages == {"none", "pages.retrieve", "blocks.children.list", "blocks.children.append"}

\* Notion after it received one more request
Received(n, op, id, after) ==
    [n EXCEPT !.log = Append(@, [op |-> op, id |-> id, after |-> after])]

\* client.pages.retrieve({ page_id })
pagesRetrieve(n, pageId, down) ==
    [notion |-> Received(n, "pages.retrieve", pageId, NoBlock),
     ok |-> down # "pages.retrieve" /\ pageId \in DOMAIN n.pages,
     id |-> pageId,
     title |-> IF pageId \in DOMAIN n.pages THEN n.pages[pageId].title ELSE ""]

\* client.blocks.children.list({ block_id, start_cursor, page_size }): a
\* cursor is the place of the next child, 0 for none
blocksChildrenList(n, blockId, startCursor, pageSize, down) ==
    LET known == down # "blocks.children.list" /\ blockId \in DOMAIN n.pages
        children == IF known THEN n.pages[blockId].children ELSE <<>>
        first == IF startCursor = 0 THEN 1 ELSE startCursor
        last == Min({first + pageSize - 1, Len(children)})
    IN  [notion |-> Received(n, "blocks.children.list", blockId, NoBlock),
         ok |-> known,
         results |-> SubSeq(children, first, last),
         has_more |-> last < Len(children),
         next_cursor |-> IF last < Len(children) THEN last + 1 ELSE 0]

\* the place of the block with the id among the children, 0 when it is not there
PlaceOf(children, id) ==
    IF \E k \in 1 .. Len(children) : children[k].id = id
    THEN CHOOSE k \in 1 .. Len(children) : children[k].id = id
    ELSE 0

\* client.blocks.children.append({ block_id, children, after }): the new
\* blocks go after the block named, or after the last child when none is named
blocksChildrenAppend(n, blockId, newBlocks, after, down) ==
    LET received == Received(n, "blocks.children.append", blockId, after)
        known == down # "blocks.children.append" /\ blockId \in DOMAIN n.pages
        children == IF known THEN n.pages[blockId].children ELSE <<>>
        place == IF after = NoBlock THEN Len(children) ELSE PlaceOf(children, after)
        ok == known /\ (after = NoBlock \/ place > 0)
        created == [k \in 1 .. Len(newBlocks) |->
                       [id |-> [req |-> Len(received.log), k |-> k],
                        type |-> newBlocks[k].type]]
    IN  [notion |-> IF ok
                    THEN [received EXCEPT !.pages[blockId].children =
                             SubSeq(children, 1, place) \o created
                                 \o SubSeq(children, place + 1, Len(children))]
                    ELSE received,
         ok |-> ok]

----------------------------------------------------------------------------
(* The worker: src/notion/client.ts *)

\* getPage: the page with its title; found is false where the source returns
\* null, which is when retrieve raises
getPage(n, pageId, down) ==
    LET page == pagesRetrieve(n, pageId, down)
    IN  [notion |-> page.notion, found |-> page.ok, id |-> page.id, title |-> page.title]

\* page_size of the list request of getChildPages
ChildPageSize == 100

RECURSIVE ChildPagesFrom(_, _, _, _, _)
\* the do-while loop of getChildPages from a cursor, with the children found
ChildPagesFrom(n, parentId, cursor, found, down) ==
    LET listed == blocksChildrenList(n, parentId, cursor, ChildPageSize, down)
        childPages == SelectSeq(listed.results, LAMBDA b : b.type = "child_page")
    IN  IF ~listed.ok THEN [notion |-> listed.notion, ok |-> FALSE, value |-> <<>>]
        ELSE IF listed.has_more /\ listed.next_cursor # 0
        THEN ChildPagesFrom(listed.notion, parentId, listed.next_cursor,
                            found \o childPages, down)
        ELSE [notion |-> listed.notion, ok |-> TRUE, value |-> found \o childPages]

getChildPages(n, parentId, down) == ChildPagesFrom(n, parentId, 0, <<>>, down)

\* an insertion that appends without naming the first block
insertBlocksNearTop_AtEnd(n, pageId, newBlocks, down) ==
    LET firstChild == blocksChildrenList(n, pageId, 0, 1, down)
    IN  IF ~firstChild.ok THEN [notion |-> firstChild.notion, ok |-> FALSE]
        ELSE blocksChildrenAppend(firstChild.notion, pageId, newBlocks, NoBlock, down)

\* insertBlocksNearTop: list the first child, then append after it, or append
\* plainly when the page has none
insertBlocksNearTop(n, pageId, newBlocks, down) ==
    LET firstChild == blocksChildrenList(n, pageId, 0, 1, down)
    IN  IF ~firstChild.ok THEN [notion |-> firstChild.notion, ok |-> FALSE]
        ELSE IF Len(firstChild.results) > 0
        THEN blocksChildrenAppend(firstChild.notion, pageId, newBlocks,
                                  firstChild.results[1].id, down)
        ELSE blocksChildrenAppend(firstChild.notion, pageId, newBlocks, NoBlock, down)

\* no page identifier: undefined, null or the empty string
NoPage == ""

\* parsePageIdentifier on the identifiers of the model: a page id stands for
\* itself in any of its accepted spellings, anything else gives null
parsePageIdentifier(input, ids) == IF input \in ids THEN input ELSE NoPage

----------------------------------------------------------------------------
(* The variables of the calls a specification does not make *)

InlineIdle == text = <<>> /\ result = <<>>

MdIdle == markdown = <<>> /\ lines = <<>> /\ i = 0 /\ blocks = <<>> /\ passes = 0

HtmlIdle ==
    /\ html = [type |-> "string", value |-> <<>>]
    /\ dom = Root(<<>>)
    /\ domFail = [main |-> "none", strip |-> FALSE]
    /\ out = <<>>

\* no call completed yet
NoCall == [op |-> "none", args |-> <<>>, result |-> <<>>, n |-> 0]

\* the call that this step completes, with what it gave: [status |-> s] for
\* the answer of a route, [returned |-> v] for a value, empty for none
Completed(op, args, returned) ==
    [op |-> op, args |-> args, result |-> returned, n |-> call.n + 1]

\* no request received and none answered
NoRequest == [cookie |-> 0, authorization |-> <<>>]

NoResponse ==
    [status |-> 0, body |-> "", headers |-> {}, next |-> FALSE, setCookie |-> 0,
     deleteCookie |-> FALSE]

ParserIdle == pc = "idle" /\ InlineIdle /\ MdIdle /\ HtmlIdle

TablesIdle == recent_pages = <<>> /\ whitelist_pages = {} /\ whitelist_parents = {}

NotionIdle == notion = [pages |-> <<>>, log |-> <<>>]

AuthIdle == sessions = {} /\ request = NoRequest /\ response = NoResponse

BackendIdle ==
    /\ now = [s |-> 0, ms |-> 0]
    /\ TablesIdle
    /\ NotionIdle
    /\ AuthIdle
    /\ call = NoCall
    /\ pages = <<>>

----------------------------------------------------------------------------
(* Specification of one parseInlineFormatting call *)


InitInline ==
    /\ pc = "segment"
    /\ text \in InlineTexts
    /\ result = <<>>
    /\ MdIdle
    /\ HtmlIdle
    /\ BackendIdle

Segment ==
    /\ pc = "segment"
    /\ result' = parseInlineFormatting(text)
    /\ pc' = "segmented"
    /\ UNCHANGED <<text, markdown, lines, i, blocks, passes, html, dom, domFail, out, backend>>

NextInline == Segment

SpecInline == InitInline /\ [][NextInline]_vars

----------------------------------------------------------------------------
(* Inputs of markdownToBlocks *)

\* one line of every construct the tokenizer tells apart, with and without
\* inline candidates: blank, whitespace only, plain, # to ####, a hash without
\* a space, bullets with either marker, nested bullet, nested quote, numbered,
\* quote, fences with and without a language
LinePool ==
    { <<>>, <<" ">>, <<"a">>,
      <<"x", "*", "*", "b", "*", "*", "[", "c", "]", "(", "u", ")">>,
      <<"#", " ", "h">>, <<"#", "#", " ", "*", "i", "*">>, <<"#", "#", "#", " ", "h">>,
      <<"#", "#", "#", "#", " ", "h">>, <<"#", "x">>,
      <<"-", " ", "a">>, <<"*", " ", "*", "*", "b", "*", "*">>,
      <<" ", " ", "-", " ", "n">>, <<" ", " ", ">", " ", "q">>,
      <<"1", ".", " ", "a">>, <<">", " ", "q">>,
      Fence, Fence \o <<"J", "S">> }

RECURSIVE LineSeqs(_)
LineSeqs(n) ==
    IF n = 0 THEN { <<>> }
    ELSE LET shorter == LineSeqs(n - 1)
         IN  shorter \cup {Append(ls, l) : ls \in shorter, l \in LinePool}

MarkdownInputs == {Join(ls, <<NL>>) : ls \in LineSeqs(MaxLines)}

----------------------------------------------------------------------------
(* Specification of one markdownToBlocks call: one action per pass of the   *)
(* main loop, by the branch the pass takes                                  *)

\* the branch of the main loop that line l takes
Branch(l) ==
    CASE IsBlank(l) -> "blank"
      [] ~IsBlank(l) /\ StartsWith(l, Fence) -> "code"
      [] OTHER ->
         IF StartsWith(l, <<"#", " ">>) THEN "heading_1"
         ELSE IF StartsWith(l, <<"#", "#", " ">>) THEN "heading_2"
         ELSE IF StartsWith(l, <<"#", "#", "#", " ">>) THEN "heading_3"
         ELSE IF IsBullet(l) THEN "bullet"
         ELSE IF IsNumbered(l) THEN "numbered"
         ELSE IF IsQuote(l) THEN "quote"
         ELSE "paragraph"

InitMd ==
    /\ pc = "loop"
    /\ markdown \in MarkdownInputs
    /\ lines = SplitLines(markdown)
    /\ i = 0
    /\ blocks = <<>>
    /\ passes = 0
    /\ InlineIdle
    /\ HtmlIdle
    /\ BackendIdle

\* a pass of `while (i < lines.length)` that takes branch b
Pass(b) ==
    /\ pc = "loop"
    /\ i < Len(lines)
    /\ passes < MaxPasses
    /\ Branch(lines[i + 1]) = b
    /\ passes' = passes + 1
    /\ UNCHANGED <<pc, markdown, lines, text, result, html, dom, domFail, out, backend>>

SkipBlank ==
    /\ Pass("blank")
    /\ i' = i + 1
    /\ UNCHANGED blocks

CodeFence ==
    /\ Pass("code")
    /\ LET language == Trim(SliceFrom(lines[i + 1], 3))
           k == RunEnd(lines, i + 1, "code")
           codeLines == LinesFrom(lines, i + 1, k)
       IN  /\ i' = k + 1
           /\ blocks' = Append(blocks,
                  CodeBlock(Join(codeLines, <<NL>>),
                            IF language = <<>> THEN PlainText ELSE language))

Heading1 ==
    /\ Pass("heading_1")
    /\ blocks' = blocks \o SegmentBlocks(<<TextBlock("heading_1", SliceFrom(lines[i + 1], 2))>>)
    /\ i' = i + 1

Heading2 ==
    /\ Pass("heading_2")
    /\ blocks' = blocks \o SegmentBlocks(<<TextBlock("heading_2", SliceFrom(lines[i + 1], 3))>>)
    /\ i' = i + 1

Heading3 ==
    /\ Pass("heading_3")
    /\ blocks' = blocks \o SegmentBlocks(<<TextBlock("heading_3", SliceFrom(lines[i + 1], 4))>>)
    /\ i' = i + 1

BulletList ==
    /\ Pass("bullet")
    /\ LET run == BulletRun(lines, i, <<>>)
       IN  /\ i' = run.next
           /\ blocks' = blocks \o SegmentBlocks(run.pushed)

NumberedList ==
    /\ Pass("numbered")
    /\ LET k == RunEnd(lines, i, "numbered")
       IN  /\ i' = k
           /\ blocks' = blocks \o SegmentBlocks([n \in 1 .. k - i |->
                  TextBlock("numbered_list_item", StripNumbered(lines[i + n]))])

Blockquote ==
    /\ Pass("quote")
    /\ LET k == RunEnd(lines, i, "quote")
           quoteLines == [n \in 1 .. k - i |-> SliceFrom(lines[i + n], 2)]
       IN  /\ i' = k
           /\ blocks' = blocks \o SegmentBlocks(<<TextBlock("quote", Join(quoteLines, <<NL>>))>>)

Paragraph ==
    /\ Pass("paragraph")
    /\ LET k == RunEnd(lines, i, "paragraph")
           paragraphLines == LinesFrom(lines, i, k)
       IN  /\ i' = k
           /\ blocks' = blocks \o SegmentBlocks(
                  IF Len(paragraphLines) > 0
                  THEN <<TextBlock("paragraph", Join(paragraphLines, <<" ">>))>>
                  ELSE <<>>)

\* the loop condition fails: return blocks
Return ==
    /\ pc = "loop"
    /\ i >= Len(lines)
    /\ pc' = "done"
    /\ UNCHANGED <<markdown, lines, i, blocks, passes, text, result, html, dom, domFail, out, backend>>

NextMd ==
    \/ SkipBlank \/ CodeFence \/ Heading1 \/ Heading2 \/ Heading3
    \/ BulletList \/ NumberedList \/ Blockquote \/ Paragraph \/ Return

SpecMd == InitMd /\ [][NextMd]_vars

----------------------------------------------------------------------------
(* Specification of one markdownToBlocks call on bullet runs *)

\* most lines of an input of bullet runs
MaxBulletLines == 4

\* items with either marker, a nested bullet, nested quotes with and without
\* a space after the marker, and a plain line
BulletLinePool ==
    { <<"-", " ", "a">>, <<"*", " ", "b">>, <<" ", " ", "-", " ", "n">>,
      <<" ", " ", ">", " ", "q">>, <<" ", ">", "r">>, <<"a">> }

RECURSIVE BulletLineSeqs(_)
BulletLineSeqs(n) ==
    IF n = 0 THEN { <<>> }
    ELSE LET shorter == BulletLineSeqs(n - 1)
         IN  shorter \cup {Append(ls, l) : ls \in shorter, l \in BulletLinePool}

InitBullets ==
    /\ pc = "loop"
    /\ markdown \in {Join(ls, <<NL>>) : ls \in BulletLineSeqs(MaxBulletLines)}
    /\ lines = SplitLines(markdown)
    /\ i = 0
    /\ blocks = <<>>
    /\ passes = 0
    /\ InlineIdle
    /\ HtmlIdle
    /\ BackendIdle

NextBullets == BulletList \/ Paragraph \/ Return

SpecBullets == InitBullets /\ [][NextBullets]_vars

----------------------------------------------------------------------------
(* Specification of one markdownToBlocks call on a fence with a language *)

UpperChar(c) ==
    IF \E k \in 1 .. Len(LowerCase) : LowerCase[k] = c
    THEN UpperCase[CHOOSE k \in 1 .. Len(LowerCase) : LowerCase[k] = c]
    ELSE c

Aliases ==
    { <<"j", "s">>, <<"t", "s">>, <<"p", "y">>, <<"r", "b">>, <<"s", "h">>,
      <<"y", "m", "l">>, <<"m", "d">> }

\* tags that no table holds: words, a word that extends a valid one, a valid
\* one with a space inside, the inherited keys, and no tag at all
UnknownTags ==
    { <<>>, <<"f", "o", "o">>, <<"j", "a", "v", "a", "x">>, <<"j", " ", "s">>,
      <<"t", "e", "x", "t">> } \cup InheritedKeys

\* every tag of the tables and every unknown tag, as written, in upper case
\* and capitalized
LanguageTags ==
    LET words == validLanguages \cup Aliases \cup UnknownTags
    IN  words
            \cup {[k \in 1 .. Len(w) |-> UpperChar(w[k])] : w \in words}
            \cup {[k \in 1 .. Len(w) |-> IF k = 1 THEN UpperChar(w[k]) ELSE w[k]] :
                      w \in words}

\* an opening fence with a tag and one line of code
InitLang ==
    /\ pc = "loop"
    /\ \E tag \in LanguageTags :
           markdown \in { Fence \o tag \o <<NL, "x">> }
    /\ lines = SplitLines(markdown)
    /\ i = 0
    /\ blocks = <<>>
    /\ passes = 0
    /\ InlineIdle
    /\ HtmlIdle
    /\ BackendIdle

NextLang == CodeFence \/ Return

SpecLang == InitLang /\ [][NextLang]_vars

----------------------------------------------------------------------------
(* Inputs of htmlToMarkdown *)

\* In the HTML source text a tag or attribute name is one element of the
\* sequence; every other element is one character.

VoidTags == {"br", "hr", "img"}

RECURSIVE SerializeAttrs(_)
SerializeAttrs(attrs) ==
    IF attrs = {} THEN <<>>
    ELSE LET p == CHOOSE q \in attrs : TRUE
         IN  <<" ", p[1], "=", "\"">> \o p[2] \o <<"\"">> \o SerializeAttrs(attrs \ {p})

RECURSIVE Serialize(_)
\* the HTML source text of a sequence of nodes
Serialize(cs) ==
    IF cs = <<>> THEN <<>>
    ELSE LET c == Head(cs)
         IN  (CASE c.nodeType = "text" -> c.data
                [] c.nodeType = "comment" ->
                       <<"<", "!", "-", "-">> \o c.data \o <<"-", "-", ">">>
                [] OTHER ->
                       <<"<", c.tag>> \o SerializeAttrs(c.attrs) \o <<">">>
                       \o (IF c.tag \in VoidTags THEN <<>>
                           ELSE Serialize(c.children) \o <<"<", "/", c.tag, ">">>))
             \o Serialize(Tail(cs))

\* most wrappers around a leaf
MaxDepth == 2

HtmlTexts == { <<"x">>, <<" ", "y", " ">> }

JsUrl == <<"j", "a", "v", "a", "s", "c", "r", "i", "p", "t", ":", "x">>

MixedCaseJsUrl == <<"J", "a", "v", "a", "S", "c", "r", "i", "p", "t", ":", "x">>

Leaves ==
    {TextNode(t) : t \in HtmlTexts}
        \cup { Element("br", {}, <<>>), CommentNode(<<"c">>),
               Element("img", {<<"alt", <<"p">>>>}, <<>>) }

\* the elements a node is wrapped in: a tag and its attributes
Wrappers ==
    {<<tag, {}>> : tag \in {"strong", "em", "code", "span", "p", "div", "h1", "h4",
                            "pre", "blockquote", "script", "style", "noscript",
                            "template", "ul", "ol", "li", "a"}}
        \cup {<<"a", {<<"href", h>>}>> : h \in { <<>>, <<"u">>, JsUrl, MixedCaseJsUrl }}
        \cup { <<"code", {<<"class", LanguagePrefix \o <<"j", "s">>>>}>> }

BlockTags == {"p", "div", "h1", "h4", "pre", "blockquote", "ul", "ol", "li", "table"}

\* the tags of a node and of the elements below it
TagsIn(node) ==
    LET below == DescendantsOf(ChildNodes(node))
    IN  {node.tag} \cup {below[k].tag : k \in 1 .. Len(below)}

\* what the HTML parser leaves nested: raw text in script and style, no block
\* in a p, no a in an a, no heading right in a heading, no li in an li but
\* through a list
ParserKeeps(parent, child) ==
    /\ parent \in {"script", "style"} => child.nodeType = "text"
    /\ parent = "p" => TagsIn(child) \cap BlockTags = {}
    /\ parent = "a" => "a" \notin TagsIn(child)
    /\ parent \in {"h1", "h4"} => child.tag \notin {"h1", "h4"}
    /\ parent = "li" => /\ child.tag # "li"
                        /\ child.tag \notin {"ul", "ol"} => "li" \notin TagsIn(child)

RECURSIVE HtmlTrees(_)
\* a leaf inside at most n wrappers
HtmlTrees(n) ==
    IF n = 0 THEN Leaves
    ELSE LET inner == HtmlTrees(n - 1)
         IN  inner \cup {Element(w[1], w[2], <<c>>) :
                             w \in Wrappers, c \in {d \in inner : TRUE}}

ValidTrees(n) ==
    {t \in HtmlTrees(n) :
        \A e \in {t} \cup {DescendantsOf(ChildNodes(t))[k] :
                             k \in 1 .. Len(DescendantsOf(ChildNodes(t)))} :
            \A k \in 1 .. Len(e.children) : ParserKeeps(e.tag, e.children[k])}

HtmlForests ==
    {<<t>> : t \in ValidTrees(MaxDepth)}
        \cup {<<l, t>> : l \in Leaves, t \in ValidTrees(1)}

\* where the DOM raises: building the tree or walking it in htmlToMarkdown,
\* and building the tree again in stripHtml
FailModes ==
    { [main |-> "none", strip |-> FALSE] }
        \cup [main : {"construction", "traversal"}, strip : BOOLEAN]

\* arguments that are not strings, value being the text innerHTML would be
\* given for them, and the empty string
GuardedInputs ==
    { [type |-> "null", value |-> <<>>],
      [type |-> "undefined", value |-> <<"undefined">>],
      [type |-> "number", value |-> <<"5">>],
      [type |-> "object", value |-> <<"[object Object]">>],
      [type |-> "string", value |-> <<>>] }

----------------------------------------------------------------------------
(* Specification of one htmlToMarkdown call *)

InitHtml ==
    /\ pc = "convert"
    /\ \/ \E forest \in HtmlForests :
              /\ dom = Root(forest)
              /\ html = [type |-> "string", value |-> Serialize(forest)]
              /\ domFail \in FailModes
       \/ /\ html \in GuardedInputs
          /\ dom = Root(IF html.value = <<>> THEN <<>> ELSE <<TextNode(html.value)>>)
          /\ domFail \in FailModes
    /\ out = <<>>
    /\ InlineIdle
    /\ MdIdle
    /\ BackendIdle

\* the path the call returns by: the guard on the argument, the try block,
\* or the catch block
ReturnPath ==
    IF html.type # "string" \/ html.value = <<>> THEN "guard"
    ELSE IF domFail.main = "none" THEN "try" ELSE "catch"

Returns ==
    /\ pc = "convert"
    /\ out' = htmlToMarkdown(html, dom, domFail)
    /\ pc' = "converted"
    /\ UNCHANGED <<html, dom, domFail, text, result, markdown, lines, i, blocks, passes, backend>>

ReturnEmpty ==
    /\ ReturnPath = "guard"
    /\ Returns

ReturnMarkdown ==
    /\ ReturnPath = "try"
    /\ Returns

ReturnStripped ==
    /\ ReturnPath = "catch"
    /\ Returns

NextHtml == ReturnEmpty \/ ReturnMarkdown \/ ReturnStripped

SpecHtml == InitHtml /\ [][NextHtml]_vars

----------------------------------------------------------------------------
(* Inputs and specification of one htmlToMarkdown call on a table *)

\* most rows of a table
MaxTableRows == 2

\* most cells of a row
MaxTableCols == 2

\* a table inside a cell: its row is a row of the outer table too
NestedTable ==
    Element("table", {},
        <<Element("tbody", {},
            <<Element("tr", {}, <<Element("td", {}, <<TextNode(<<"n", "|">>)>>)>>)>>)>>)

\* a cell to trim, a cell with a pipe, a cell that holds a table
CellPool ==
    { Element("td", {}, <<TextNode(<<" ", "a", " ">>)>>),
      Element("th", {}, <<TextNode(<<"p", "|", "q">>)>>),
      Element("td", {}, <<NestedTable>>) }

RECURSIVE CellSeqs(_)
CellSeqs(n) ==
    IF n = 0 THEN { <<>> }
    ELSE LET shorter == CellSeqs(n - 1)
         IN  shorter \cup {Append(cs, c) : cs \in shorter, c \in CellPool}

\* the rows, the row without a cell among them
TableRowPool == {Element("tr", {}, cs) : cs \in CellSeqs(MaxTableCols)}

RECURSIVE RowSeqs(_)
RowSeqs(n) ==
    IF n = 0 THEN { <<>> }
    ELSE LET shorter == RowSeqs(n - 1)
         IN  shorter \cup {Append(rs, r) : rs \in shorter, r \in TableRowPool}

\* the parser puts the rows of a table in a tbody
HtmlTables ==
    {Element("table", {}, <<Element("tbody", {}, rs)>>) : rs \in RowSeqs(MaxTableRows) \ { <<>> }}

InitTable ==
    /\ pc = "convert"
    /\ \E t \in HtmlTables :
           /\ dom = Root(<<t>>)
           /\ html = [type |-> "string", value |-> Serialize(<<t>>)]
    /\ domFail = [main |-> "none", strip |-> FALSE]
    /\ out = <<>>
    /\ InlineIdle
    /\ MdIdle
    /\ BackendIdle

NextTable == ReturnMarkdown

SpecTable == InitTable /\ [][NextTable]_vars

----------------------------------------------------------------------------
(* Inputs and specification of one htmlToMarkdown call on a list *)

\* most children of a list
MaxListChildren == 3

\* items with a text to trim, with markup and with a list of their own, an
\* element that is not an item, and a text right in the list
ListChildPool ==
    { Element("li", {}, <<TextNode(<<"a">>)>>),
      Element("li", {}, <<TextNode(<<" ", "b", " ">>)>>),
      Element("li", {}, <<Element("strong", {}, <<TextNode(<<"c">>)>>)>>),
      Element("li", {}, <<TextNode(<<"d">>),
                          Element("ol", {}, <<Element("li", {}, <<TextNode(<<"n">>)>>)>>)>>),
      Element("span", {}, <<TextNode(<<"s">>)>>),
      TextNode(<<"t">>) }

RECURSIVE ListChildSeqs(_)
ListChildSeqs(n) ==
    IF n = 0 THEN { <<>> }
    ELSE LET shorter == ListChildSeqs(n - 1)
         IN  shorter \cup {Append(cs, c) : cs \in shorter, c \in ListChildPool}

HtmlLists ==
    {Element(tag, {}, cs) : tag \in {"ol", "ul"}, cs \in ListChildSeqs(MaxListChildren)}

InitList ==
    /\ pc = "convert"
    /\ \E l \in HtmlLists :
           /\ dom = Root(<<l>>)
           /\ html = [type |-> "string", value |-> Serialize(<<l>>)]
    /\ domFail = [main |-> "none", strip |-> FALSE]
    /\ out = <<>>
    /\ InlineIdle
    /\ MdIdle
    /\ BackendIdle

NextList == ReturnMarkdown

SpecList == InitList /\ [][NextList]_vars

----------------------------------------------------------------------------
(* Specification of the calls on table recent_pages *)

\* ticks of the clock followed
MaxTicks == 1

\* calls followed
MaxCalls == 2

\* a store the calls before have filled: n pages in the order of their
\* insertion, used one a second or all within the last second
FilledStore(n, spread) ==
    [k \in 1 .. n |->
        [page_id |-> k, page_title |-> "t0",
         last_used |-> IF spread = "distinct" THEN k ELSE RecentLimit, rowid |-> k]]

\* the pages of the calls: the oldest page of a filled store and two new ones
PageIds == {1, RecentLimit + 1, RecentLimit + 2}

PageTitles == {"t1", "t2"}

InitRecent ==
    /\ ParserIdle
    /\ now = [s |-> RecentLimit, ms |-> 0]
    /\ recent_pages \in {FilledStore(n, spread) :
                            n \in {0, RecentLimit}, spread \in {"distinct", "tied"}}
    /\ whitelist_pages = {} /\ whitelist_parents = {}
    /\ NotionIdle
    /\ AuthIdle
    /\ call = NoCall
    /\ pages = <<>>

\* half a second passes
Tick ==
    /\ now.s < RecentLimit + MaxTicks
    /\ now' = IF now.ms = 0 THEN [now EXCEPT !.ms = 500]
                             ELSE [s |-> now.s + 1, ms |-> 0]
    /\ UNCHANGED <<parser, recent_pages, whitelist_pages, whitelist_parents, sessions,
                   notion, call, pages, request, response>>

UpsertRecentPage ==
    /\ call.n < MaxCalls
    /\ \E pageId \in PageIds, pageTitle \in PageTitles, ties \in TieOrders :
        /\ recent_pages' = upsertRecentPage(recent_pages, pageId, pageTitle, now, ties)
        /\ call' = Completed("upsertRecentPage",
                              [pageId |-> pageId, pageTitle |-> pageTitle], <<>>)
    /\ UNCHANGED <<parser, now, whitelist_pages, whitelist_parents, sessions, notion,
                   pages, request, response>>

GetRecentPages ==
    /\ call.n < MaxCalls
    /\ \E ties \in TieOrders :
        /\ pages' = getRecentPages(recent_pages, RecentLimit, ties)
        /\ call' = Completed("getRecentPages", [limit |-> RecentLimit], <<>>)
    /\ UNCHANGED <<parser, now, recent_pages, whitelist_pages, whitelist_parents,
                   sessions, notion, request, response>>

NextRecent == Tick \/ UpsertRecentPage \/ GetRecentPages

SpecRecent == InitRecent /\ [][NextRecent]_vars

----------------------------------------------------------------------------
(* Specification of the API routes of the worker (src/routes/api.ts) *)

\* the pages of the workspace: an empty one, and one with a paragraph and a
\* child page
NotionPages ==
    [p \in {"p1", "p2"} |->
        IF p = "p1" THEN [title |-> "T1", children |-> <<>>]
        ELSE [title |-> "T2",
              children |-> <<[id |-> [req |-> 0, k |-> 1], type |-> "paragraph"],
                             [id |-> [req |-> 0, k |-> 2], type |-> "child_page"]>>]]

\* the pages that ORDER BY page_title puts first come first
ByPageTitle == <<"p1", "p2">>

\* page identifiers of the requests: none, one that does not parse, the pages
\* of the workspace and a page that is not shared with the integration
PageInputs == {NoPage, "bad", "p1", "p2", "p9"}

\* contents of the insert requests: none, a paragraph, a bullet with a quote
InsertContents ==
    { <<>>, <<"a">>, <<"-", " ", "x", NL, " ", " ", ">", " ", "q">> }

InitApi ==
    /\ pc = "serve"
    /\ InlineIdle /\ MdIdle /\ HtmlIdle
    /\ now = [s |-> 0, ms |-> 0]
    /\ TablesIdle
    /\ notion = [pages |-> NotionPages, log |-> <<>>]
    /\ AuthIdle
    /\ call = NoCall
    /\ pages = <<>>

\* POST /api/insert without pageId or content: 400
RejectInsert ==
    /\ pc = "serve"
    /\ call.n < MaxCalls
    /\ \E pageId \in PageInputs, content \in InsertContents :
           /\ pageId = NoPage \/ content = <<>>
           /\ call' = Completed("insert", [pageId |-> pageId, pageTitle |-> "T"],
                                [status |-> 400])
    /\ UNCHANGED <<parser, now, recent_pages, whitelist_pages, whitelist_parents, sessions,
                   notion, pages, request, response>>

\* POST /api/insert with both: markdownToBlocks(body.content) starts
ReceiveInsert ==
    /\ pc = "serve"
    /\ call.n < MaxCalls
    /\ \E pageId \in PageInputs \ {NoPage}, content \in InsertContents \ { <<>> } :
           /\ call' = [op |-> "insert", args |-> [pageId |-> pageId, pageTitle |-> "T"],
                       result |-> <<>>, n |-> call.n]
           /\ markdown' = content
           /\ lines' = SplitLines(content)
    /\ i' = 0
    /\ blocks' = <<>>
    /\ passes' = 0
    /\ pc' = "loop"
    /\ UNCHANGED <<text, result, html, dom, domFail, out, now, recent_pages,
                   whitelist_pages, whitelist_parents, sessions, notion, pages, request,
                   response>>

\* POST /api/insert after markdownToBlocks returned: insertBlocksNearTop, then
\* upsertRecentPage, 200; 500 when Notion raised
InsertBlocks ==
    /\ pc = "done"
    /\ call.op = "insert"
    /\ \E down \in NotionOutages, ties \in TieOrders :
           LET inserted == insertBlocksNearTop(notion, call.args.pageId, blocks, down)
           IN  /\ notion' = inserted.notion
               /\ recent_pages' =
                      IF inserted.ok
                      THEN upsertRecentPage(recent_pages, call.args.pageId,
                                            call.args.pageTitle, now, ties)
                      ELSE recent_pages
               /\ call' = Completed("insert", call.args,
                                    [status |-> IF inserted.ok THEN 200 ELSE 500])
    /\ pc' = "serve"
    /\ markdown' = <<>> /\ lines' = <<>> /\ i' = 0 /\ blocks' = <<>> /\ passes' = 0
    /\ UNCHANGED <<text, result, html, dom, domFail, out, now, whitelist_pages,
                   whitelist_parents, sessions, pages, request, response>>

RECURSIVE ChildrenOfParents(_, _, _)
\* the loop of /searchable-pages over the parents: Notion after getChildPages
\* of each, a parent whose call raises being skipped
ChildrenOfParents(n, parents, down) ==
    IF parents = <<>> THEN n
    ELSE ChildrenOfParents(getChildPages(n, Head(parents), down).notion, Tail(parents), down)

\* GET /api/searchable-pages
GetSearchablePages ==
    /\ pc = "serve"
    /\ call.n < MaxCalls
    /\ \E down \in NotionOutages :
           notion' = ChildrenOfParents(notion,
                         SelectSeq(ByPageTitle,
                                   LAMBDA p : \E r \in whitelist_parents : r.page_id = p),
                         down)
    /\ call' = Completed("searchable-pages", <<>>, [status |-> 200])
    /\ UNCHANGED <<parser, now, recent_pages, whitelist_pages, whitelist_parents, sessions,
                   pages, request, response>>

\* INSERT INTO whitelist ... ON CONFLICT(page_id) DO UPDATE SET page_title
AddWhitelistRow(table, pageId, pageTitle) ==
    {r \in table : r.page_id # pageId} \cup {[page_id |-> pageId, page_title |-> pageTitle]}

\* POST /api/whitelist/pages and POST /api/whitelist/parents: what the route
\* answers and the row it adds, if any
AddToWhitelist(input, down) ==
    LET pageId == IF input = NoPage THEN NoPage
                  ELSE parsePageIdentifier(input, {"p1", "p2", "p9"})
        page == IF pageId = NoPage
                THEN [notion |-> notion, found |-> FALSE, id |-> NoPage, title |-> ""]
                ELSE getPage(notion, pageId, down)
    IN  [notion |-> page.notion,
         status |-> IF pageId = NoPage THEN 400 ELSE IF ~page.found THEN 404 ELSE 200,
         page |-> page]

PostWhitelistPage ==
    /\ pc = "serve"
    /\ call.n < MaxCalls
    /\ \E input \in PageInputs, down \in NotionOutages :
           LET added == AddToWhitelist(input, down)
           IN  /\ notion' = added.notion
               /\ whitelist_pages' =
                      IF added.status = 200
                      THEN AddWhitelistRow(whitelist_pages, added.page.id, added.page.title)
                      ELSE whitelist_pages
               /\ call' = Completed("whitelist/pages", [pageId |-> input],
                                    [status |-> added.status])
    /\ UNCHANGED <<parser, now, recent_pages, whitelist_parents, sessions, pages, request,
                   response>>

PostWhitelistParent ==
    /\ pc = "serve"
    /\ call.n < MaxCalls
    /\ \E input \in PageInputs, down \in NotionOutages :
           LET added == AddToWhitelist(input, down)
           IN  /\ notion' = added.notion
               /\ whitelist_parents' =
                      IF added.status = 200
                      THEN AddWhitelistRow(whitelist_parents, added.page.id, added.page.title)
                      ELSE whitelist_parents
               /\ call' = Completed("whitelist/parents", [pageId |-> input],
                                    [status |-> added.status])
    /\ UNCHANGED <<parser, now, recent_pages, whitelist_pages, sessions, pages, request,
                   response>>

\* DELETE /api/whitelist/pages/:id
DeleteWhitelistPage ==
    /\ pc = "serve"
    /\ call.n < MaxCalls
    /\ \E id \in PageInputs \ {NoPage} :
           /\ whitelist_pages' = {r \in whitelist_pages : r.page_id # id}
           /\ call' = Completed("delete whitelist/pages", [id |-> id], [status |-> 200])
    /\ UNCHANGED <<parser, now, recent_pages, whitelist_parents, sessions, notion, pages,
                   request, response>>

\* DELETE /api/whitelist/parents/:id
DeleteWhitelistParent ==
    /\ pc = "serve"
    /\ call.n < MaxCalls
    /\ \E id \in PageInputs \ {NoPage} :
           /\ whitelist_parents' = {r \in whitelist_parents : r.page_id # id}
           /\ call' = Completed("delete whitelist/parents", [id |-> id], [status |-> 200])
    /\ UNCHANGED <<parser, now, recent_pages, whitelist_pages, sessions, notion, pages,
                   request, response>>

NextApi ==
    \/ RejectInsert \/ ReceiveInsert \/ BulletList \/ Paragraph \/ Return \/ InsertBlocks
    \/ GetSearchablePages \/ PostWhitelistPage \/ PostWhitelistParent
    \/ DeleteWhitelistPage \/ DeleteWhitelistParent

SpecApi == InitApi /\ [][NextApi]_vars

----------------------------------------------------------------------------
(* Specification SpecAuth: requests through authMiddleware, and the calls  *)
(* on table sessions, while the clock runs past the expiry of a session    *)

\* the instant of the first request: 2024-01-01T10:00:00.000Z
FirstInstant == [s |-> 1704103200, ms |-> 0]

\* the time from the first request to a later one, in seconds: within the
\* second, a second, then around 30 days, and the last second of that day
\* and the first of the next
Elapsed ==
    {[s |-> 0, ms |-> 0], [s |-> 0, ms |-> 500], [s |-> 1, ms |-> 0],
     [s |-> SESSION_DURATION - 1, ms |-> 0], [s |-> SESSION_DURATION, ms |-> 0],
     [s |-> SESSION_DURATION, ms |-> 500], [s |-> SESSION_DURATION + 1, ms |-> 0],
     [s |-> SESSION_DURATION + 14 * 3600 - 1, ms |-> 0],
     [s |-> SESSION_DURATION + 14 * 3600, ms |-> 0]}

ClockInstants == {[s |-> FirstInstant.s + e.s, ms |-> e.ms] : e \in Elapsed}

\* instant a is later than instant b
Later(a, b) == a.s > b.s \/ (a.s = b.s /\ a.ms > b.ms)

\* c.env.AUTH_PASSWORD of the deployment that serves a request
AuthPasswords == {<<"p", "w">>, <<"p", ":", "w">>}

\* the Authorization headers of the requests; empty: no header
AuthHeaders ==
    {<<>>,
     \* Bearer dTpwdw==: another scheme
     <<"B", "e", "a", "r", "e", "r", " ", "d",
        "T", "p", "w", "d", "w", "=", "=">>,
     \* basic dTpwdw==: the scheme in lower case
     <<"b", "a", "s", "i", "c", " ", "d",
        "T", "p", "w", "d", "w", "=", "=">>,
     \* Basic dTpwdw==: 'u:pw'
     <<"B", "a", "s", "i", "c", " ", "d",
        "T", "p", "w", "d", "w", "=", "=">>,
     \* Basic dTpwdw: 'u:pw' without its padding
     <<"B", "a", "s", "i", "c", " ",
        "d", "T", "p", "w", "d", "w">>,
     \* Basic dTp4: 'u:x'
     <<"B", "a", "s", "i", "c",
        " ", "d", "T", "p", "4">>,
     \* Basic dXB3: 'upw', no colon
     <<"B", "a", "s", "i", "c",
        " ", "d", "X", "B", "3">>,
     \* Basic dTpwOnc=: 'u:p:w'
     <<"B", "a", "s", "i", "c", " ", "d",
        "T", "p", "w", "O", "n", "c", "=">>,
     \* Basic OnB3: ':pw', no user
     <<"B", "a", "s", "i", "c",
        " ", "O", "n", "B", "3">>,
     \* Basic dTpw*w==: a character outside the alphabet
     <<"B", "a", "s", "i", "c", " ", "d",
        "T", "p", "w", "*", "w", "=", "=">>,
     \* Basic dTpwd: a length of 1 modulo 4
     <<"B", "a", "s", "i", "c", " ",
        "d", "T", "p", "w", "d">>}

\* the session cookies of the requests: 0 for none, the ids of the sessions
\* created, and one id no session has
Cookies == 0 .. MaxCalls + 1

Requests ==
    {[cookie |-> c, authorization |-> <<>>] : c \in Cookies}
        \cup {[cookie |-> 0, authorization |-> h] : h \in AuthHeaders}
        \cup {[cookie |-> 1, authorization |-> h] :
                h \in {<<"B", "a", "s", "i", "c", " ", "d", "T", "p", "w", "d", "w", "=", "=">>,
                       <<"B", "a", "s", "i", "c", " ", "d", "T", "p", "4">>}}

InitAuth ==
    /\ ParserIdle
    /\ now = FirstInstant
    /\ TablesIdle
    /\ NotionIdle
    /\ AuthIdle
    /\ call = NoCall
    /\ pages = <<>>

\* time passes
Advance ==
    /\ \E at \in ClockInstants : Later(at, now) /\ now' = at
    /\ UNCHANGED <<parser, recent_pages, whitelist_pages, whitelist_parents, sessions,
                   notion, call, pages, request, response>>

\* a request goes through the middleware; crypto.randomUUID() gives an id no
\* session had, here the number of the call
AuthMiddleware ==
    /\ call.n < MaxCalls
    /\ \E req \in Requests, password \in AuthPasswords :
        LET done == authMiddleware(req, password, sessions, call.n + 1, now)
        IN  /\ request' = req
            /\ response' = done.response
            /\ sessions' = done.sessions
            /\ call' = Completed("authMiddleware", [AUTH_PASSWORD |-> password],
                                 [returned |-> done.response.next])
    /\ UNCHANGED <<parser, now, recent_pages, whitelist_pages, whitelist_parents,
                   notion, pages>>

ValidateSession ==
    /\ call.n < MaxCalls
    /\ \E sessionId \in Cookies \ {0} :
        call' = Completed("validateSession", [sessionId |-> sessionId],
                          [returned |-> validateSession(sessions, sessionId, now)])
    /\ UNCHANGED <<parser, now, recent_pages, whitelist_pages, whitelist_parents,
                   sessions, notion, pages, request, response>>

CleanupExpiredSessions ==
    /\ call.n < MaxCalls
    /\ sessions' = cleanupExpiredSessions(sessions, now)
    /\ call' = Completed("cleanupExpiredSessions", <<>>, <<>>)
    /\ UNCHANGED <<parser, now, recent_pages, whitelist_pages, whitelist_parents,
                   notion, pages, request, response>>

DeleteSession ==
    /\ call.n < MaxCalls
    /\ \E sessionId \in Cookies \ {0} :
        /\ sessions' = deleteSession(sessions, sessionId)
        /\ call' = Completed("deleteSession", [sessionId |-> sessionId], <<>>)
    /\ UNCHANGED <<parser, now, recent_pages, whitelist_pages, whitelist_parents,
                   notion, pages, request, response>>

NextAuth ==
    \/ Advance
    \/ AuthMiddleware
    \/ ValidateSession
    \/ CleanupExpiredSessions
    \/ DeleteSession

SpecAuth == InitAuth /\ [][NextAuth]_vars

----------------------------------------------------------------------------
(* Specification SpecPipeline: markdownToBlocks on what htmlToMarkdown     *)
(* returned for a selection of block elements                              *)

\* the block elements of a selection: the six headings, a paragraph, a
\* preformatted text, a quotation and a list of either kind
PipelineBlocks ==
    {Element(h, {}, <<TextNode(t)>>) :
        h \in {"h1", "h2", "h3", "h4", "h5", "h6"}, t \in HtmlTexts}
        \cup {Element(tag, {}, <<TextNode(<<"x">>)>>) : tag \in {"p", "pre", "blockquote"}}
        \cup {Element(tag, {}, <<Element("li", {}, <<TextNode(<<"x">>)>>)>>) :
                tag \in {"ul", "ol"}}

PipelineForests ==
    {<<a>> : a \in PipelineBlocks} \cup {<<a, b>> : a, b \in PipelineBlocks}

InitPipeline ==
    /\ pc = "convert"
    /\ \/ \E forest \in PipelineForests :
              /\ dom = Root(forest)
              /\ html = [type |-> "string", value |-> Serialize(forest)]
              /\ domFail \in FailModes
       \/ /\ html \in GuardedInputs
          /\ dom = Root(IF html.value = <<>> THEN <<>> ELSE <<TextNode(html.value)>>)
          /\ domFail \in FailModes
    /\ out = <<>>
    /\ InlineIdle
    /\ MdIdle
    /\ BackendIdle

\* markdownToBlocks is called on the text htmlToMarkdown returned
Tokenize ==
    /\ pc = "converted"
    /\ pc' = "loop"
    /\ markdown' = out
    /\ lines' = SplitLines(out)
    /\ i' = 0
    /\ blocks' = <<>>
    /\ passes' = 0
    /\ UNCHANGED <<text, result, html, dom, domFail, out, backend>>

NextPipeline ==
    \/ ReturnEmpty \/ ReturnMarkdown \/ ReturnStripped
    \/ Tokenize
    \/ SkipBlank \/ CodeFence \/ Heading1 \/ Heading2 \/ Heading3
    \/ BulletList \/ NumberedList \/ Blockquote \/ Paragraph \/ Return

SpecPipeline == InitPipeline /\ [][NextPipeline]_vars

----------------------------------------------------------------------------
(* Specification SpecCapture: the overlay of content.js. The captured text *)
(* is formatted, the user may replace it in the textarea, and the content  *)
(* goes to markdownToBlocks                                                *)

\* lines of a captured text: plain, empty, indented, and lines that begin as
\* a heading, a quote, a bullet, a nested bullet, a fence or a numbered item
CapturedLinePool ==
    { <<"a">>, <<>>, <<" ", "b">>, <<"#", " ", "h">>, <<"#", "#", "#", "#", " ", "h">>,
      <<">", " ", "q">>, <<"-", " ", "i">>, <<" ", " ", "-", " ", "n">>, Fence,
      <<"1", ".", " ", "n">> }

RECURSIVE CapturedLineSeqs(_)
CapturedLineSeqs(n) ==
    IF n = 0 THEN { <<>> }
    ELSE LET shorter == CapturedLineSeqs(n - 1)
         IN  shorter \cup {Append(ls, l) : ls \in shorter, l \in CapturedLinePool}

\* what htmlToMarkdown gave for the selection, and the blank texts
CapturedMarkdowns ==
    {Join(ls, <<NL>>) : ls \in CapturedLineSeqs(MaxLines)} \cup { <<" ">>, <<" ", NL, TAB>> }

\* document.title, with and without brackets
CapturedTitles == { <<>>, <<"T">>, <<"a", "[", "b", "]">> }

\* window.location.href
CapturedUrls == { <<"u">> }

\* what the user may put in the textarea in place of the formatted content
EditedContents ==
    { Join(<< <<"#", " ", "a">>, <<"#", "#", " ", "b">>, <<"#", "#", "#", " ", "c">>,
              <<>>, <<"p">> >>, <<NL>>),
      Join(<< Fence, <<"x">>, Fence, <<"1", ".", " ", "n">>, <<">", " ", "q">> >>, <<NL>>) }

InitCapture ==
    /\ pc = "converted"
    /\ out \in CapturedMarkdowns
    /\ html = [type |-> "string", value |-> <<>>]
    /\ dom = Root(<<>>)
    /\ domFail = [main |-> "none", strip |-> FALSE]
    /\ InlineIdle
    /\ MdIdle
    /\ BackendIdle

\* the text that markdownToBlocks is going to be called on
Content(c) ==
    /\ markdown' = c
    /\ lines' = SplitLines(c)
    /\ i' = 0
    /\ blocks' = <<>>
    /\ passes' = 0
    /\ UNCHANGED <<text, result, html, dom, domFail, out, now, recent_pages,
                   whitelist_pages, whitelist_parents, sessions, notion, pages, request,
                   response>>

\* captureAndShowOverlay: the captured text is formatted and shown
FormatCapturedContent ==
    /\ pc = "converted"
    /\ pc' = "loop"
    /\ \E pageTitle \in CapturedTitles, pageUrl \in CapturedUrls :
        /\ Content(formatCapturedContent(out, pageTitle, pageUrl))
        /\ call' = Completed("formatCapturedContent",
                             [pageTitle |-> pageTitle, pageUrl |-> pageUrl], <<>>)

\* the user replaces the content before it is sent
EditContent ==
    /\ pc = "loop"
    /\ call.op = "formatCapturedContent"
    /\ passes = 0
    /\ UNCHANGED pc
    /\ \E c \in EditedContents :
        /\ Content(c)
        /\ call' = [call EXCEPT !.op = "edit"]

NextCapture ==
    \/ FormatCapturedContent
    \/ EditContent
    \/ SkipBlank \/ CodeFence \/ Heading1 \/ Heading2 \/ Heading3
    \/ BulletList \/ NumberedList \/ Blockquote \/ Paragraph \/ Return

SpecCapture == InitCapture /\ [][NextCapture]_vars

----------------------------------------------------------------------------
(* Properties of markdownToBlocks (SpecMd) *)

\* sub occurs somewhere in s
Contains(s, sub) == \E k \in 0 .. Len(s) - Len(sub) : At(s, k, sub)

\* the blocks pushed so far and their children
AllBlocks ==
    {blocks[k] : k \in 1 .. Len(blocks)}
        \cup UNION {{blocks[k].children[c] : c \in 1 .. Len(blocks[k].children)} :
                        k \in 1 .. Len(blocks)}

\* the contents of a span list joined in order
SpanContents(spans) == Concat([k \in 1 .. Len(spans) |-> spans[k].content])

\* a span as it was written in the source: its content inside the markers of
\* the candidate it came from
Rewrap(span) ==
    CASE span.kind = "plain" -> span.content
      [] span.kind = "bold_italic" -> <<"*", "*", "*">> \o span.content \o <<"*", "*", "*">>
      [] span.kind = "bold" -> <<"*", "*">> \o span.content \o <<"*", "*">>
      [] span.kind = "italic_star" -> <<"*">> \o span.content \o <<"*">>
      [] span.kind = "italic_underscore" -> <<"_">> \o span.content \o <<"_">>
      [] span.kind = "code" -> <<BT>> \o span.content \o <<BT>>
      [] span.kind = "link" -> <<"[">> \o span.content \o <<"]", "(">> \o span.link \o <<")">>

SpanSources(spans) == Concat([k \in 1 .. Len(spans) |-> Rewrap(spans[k])])

HasFormattedSpan(spans) == \E k \in 1 .. Len(spans) : spans[k].annotated

\* C1 (as claimed): every pass of the main loop of markdownToBlocks advances
\* the line index by at least one, so the loop ends for every input.
C1_EveryPassAdvances == [][passes' # passes => i' > i]_vars

\* C2 (as claimed): for every block, the contents of its spans joined in order
\* are exactly the text handed to parseInlineFormatting for that block.
C2_ContentsReconstructSource ==
    \A b \in AllBlocks : b.segmented => SpanContents(b.rich_text) = b.src

\* C2 (amended): for every block, its spans joined in order, a plain span as its
\* content and a formatted span as its content inside the markers of its
\* candidate (and, for a link, followed by its target), are exactly the text
\* handed to parseInlineFormatting; the contents alone are that text when the
\* block has no formatted span.
C2_SpansReconstructSource ==
    \A b \in AllBlocks :
        b.segmented =>
            /\ SpanSources(b.rich_text) = b.src
            /\ ~HasFormattedSpan(b.rich_text) => SpanContents(b.rich_text) = b.src

\* a finished call with a block that mixes plain, bold and link spans
C2_Witness ==
    /\ pc = "done"
    /\ \E b \in AllBlocks :
           /\ b.segmented
           /\ \E k \in 1 .. Len(b.rich_text) : b.rich_text[k].kind = "plain"
           /\ \E k \in 1 .. Len(b.rich_text) : b.rich_text[k].bold
           /\ \E k \in 1 .. Len(b.rich_text) : b.rich_text[k].has_link

\* C6 (as claimed): a pass of the main loop on a line that begins with four or
\* more '#' pushes exactly one block, a paragraph whose text contains the line.
C6_HashLineBecomesParagraph ==
    [][(/\ passes' # passes
        /\ StartsWith(lines[i + 1], <<"#", "#", "#", "#">>))
       => /\ Len(blocks') = Len(blocks) + 1
          /\ blocks'[Len(blocks')].type = "paragraph"
          /\ Contains(blocks'[Len(blocks')].src, lines[i + 1])]_vars

\* C13: a pass on an opening fence pushes one code block and consumes the
\* lines up to and with the first later line that begins with three backticks,
\* or every remaining line when there is none; the block has exactly one span,
\* without annotations, whose content is the lines between the fences as they
\* are, joined by line terminators.
C13_FenceConsumesVerbatim ==
    [][(passes' # passes /\ StartsWith(lines[i + 1], Fence)) =>
        LET closers == {n \in i + 1 .. Len(lines) - 1 : StartsWith(lines[n + 1], Fence)}
            end == IF closers = {} THEN Len(lines) ELSE Min(closers)
            block == blocks'[Len(blocks')]
        IN  /\ Len(blocks') = Len(blocks) + 1
            /\ SubSeq(blocks', 1, Len(blocks)) = blocks
            /\ i' > end
            /\ closers # {} => i' = end + 1
            /\ block.type = "code"
            /\ Len(block.rich_text) = 1
            /\ ~block.rich_text[1].annotated
            /\ ~block.rich_text[1].has_link
            /\ block.rich_text[1].content =
                   Join([n \in 1 .. end - (i + 1) |-> lines[i + 1 + n]], <<NL>>)]_vars

\* a finished call on a closed fence around a line with inline markers
C13_Witness ==
    /\ pc = "done"
    /\ Len(lines) = 3
    /\ StartsWith(lines[3], Fence)
    /\ Len(blocks) = 1
    /\ blocks[1].type = "code"
    /\ Contains(blocks[1].rich_text[1].content, <<"*", "*", "b", "*", "*">>)

\* the lines among the first n that are not blank
NonBlankLines(ls, n) == {k \in 1 .. Min({n, Len(ls)}) : Trim(ls[k]) # <<>>}

\* C19: a pass on a blank line, empty or of whitespace alone, goes to the next
\* line and pushes no block; at no time are there more blocks than lines that
\* are not blank among the lines consumed, so that the empty line after a
\* trailing line terminator adds no block; and the call returns no block for
\* the empty string and for every input of blank lines alone.
C19_BlankLinesGiveNoBlock ==
    [][/\ (passes' # passes /\ Trim(lines[i + 1]) = <<>>) =>
              (blocks' = blocks /\ i' = i + 1)
       /\ Len(blocks') <= Cardinality(NonBlankLines(lines, i'))
       /\ (pc' = "done" /\ NonBlankLines(lines, Len(lines)) = {}) => blocks' = <<>>]_vars

\* a finished call on a whitespace line, a paragraph and a trailing line
\* terminator
C19_Witness ==
    /\ pc = "done"
    /\ Len(lines) = 3
    /\ lines[1] = <<" ">>
    /\ lines[3] = <<>>
    /\ Len(blocks) = 1
    /\ passes = 3

\* a line that is not blank and matches no block marker: no fence, no heading
\* of level 1 to 3, no bullet, no number, no quote
MatchesNoMarker(l) ==
    /\ Trim(l) # <<>>
    /\ ~StartsWith(l, Fence)
    /\ ~StartsWith(l, <<"#", " ">>)
    /\ ~StartsWith(l, <<"#", "#", " ">>)
    /\ ~StartsWith(l, <<"#", "#", "#", " ">>)
    /\ ~(Len(l) >= 2 /\ l[1] \in {"-", "*"} /\ IsSpace(l[2]))
    /\ ~IsNumbered(l)
    /\ ~StartsWith(l, <<">", " ">>)

\* C20 (as claimed): a pass on a line that is not blank and matches no block
\* marker consumes the whole run of such lines from there and pushes exactly
\* one block, a paragraph whose text is the lines of the run joined by one
\* space; the run ends at a blank line, which begins no paragraph.
C20_RunBecomesOneParagraph ==
    [][(passes' # passes /\ MatchesNoMarker(lines[i + 1])) =>
        LET end == Min({n \in i + 1 .. Len(lines) :
                           n = Len(lines) \/ ~MatchesNoMarker(lines[n + 1])})
        IN  /\ i' = end
            /\ Len(blocks') = Len(blocks) + 1
            /\ SubSeq(blocks', 1, Len(blocks)) = blocks
            /\ blocks'[Len(blocks')].type = "paragraph"
            /\ blocks'[Len(blocks')].src =
                   Join([n \in 1 .. end - i |-> lines[i + n]], <<" ">>)]_vars

----------------------------------------------------------------------------
(* Properties of parseInlineFormatting (SpecInline) *)

\* the place of a category in the scan order
Rank(kind) == CHOOSE k \in 1 .. Len(ScanOrder) : ScanOrder[k] = kind

\* every match of every scan, before the covering test
RawCandidates(t) ==
    UNION {LET ms == ScanMatches(t, ScanOrder[k]) IN {ms[n] : n \in 1 .. Len(ms)} :
              k \in 1 .. Len(ScanOrder)}

\* the candidates pushed to allMatches
Accepted(t) == LET all == CollectMatches(t) IN {all[n] : n \in 1 .. Len(all)}

Overlap(c, d) == c.start < d.end /\ d.start < c.end

Covers(c, d) == c.start <= d.start /\ c.end >= d.end

\* c comes before d from left to right, the scan order breaking ties
Before(c, d) == c.start < d.start \/ (c.start = d.start /\ Rank(c.kind) < Rank(d.kind))

\* candidate c is one of the formatted spans of the result
Emitted(c) ==
    \E k \in 1 .. Len(result) :
        /\ result[k].annotated
        /\ result[k].kind = c.kind
        /\ result[k].from = c.start
        /\ result[k].to = c.end

\* C3: the spans returned by parseInlineFormatting are, in output order, source
\* intervals that are ascending, disjoint and contiguous from offset 0 to the
\* length of the text; a plain span is the source slice of its interval and a
\* formatted span is exactly one accepted candidate.
C3_SpansPartitionText ==
    pc = "segmented" =>
      LET accepted == Accepted(text) IN
        /\ Len(result) >= 1
        /\ result[1].from = 0
        /\ result[Len(result)].to = Len(text)
        /\ \A k \in 1 .. Len(result) - 1 : result[k].to = result[k + 1].from
        /\ \A k \in 1 .. Len(result) : result[k].from < result[k].to \/ text = <<>>
        /\ \A k \in 1 .. Len(result) :
               IF result[k].annotated
               THEN /\ \E m \in accepted :
                          /\ m.start = result[k].from
                          /\ m.end = result[k].to
                          /\ m.kind = result[k].kind
                          /\ m.content = result[k].content
                    /\ Rewrap(result[k]) = Slice(text, result[k].from, result[k].to)
               ELSE result[k].content = Slice(text, result[k].from, result[k].to)

\* a result with a plain span before and after a formatted one
C3_Witness ==
    /\ pc = "segmented"
    /\ \E k \in 2 .. Len(result) - 1 :
           result[k].annotated /\ ~result[k - 1].annotated /\ ~result[k + 1].annotated

\* C4 (as claimed): of two overlapping candidates of different categories, the
\* one of the category scanned first is emitted and the other is discarded.
C4_EarlierCategoryWins ==
    pc = "segmented" =>
      LET raw == RawCandidates(text) IN
        \A c, d \in raw :
            (Rank(c.kind) < Rank(d.kind) /\ Overlap(c, d)) => (Emitted(c) /\ ~Emitted(d))

\* C4 (amended): a candidate that lies inside an accepted candidate of a
\* category scanned before it is never emitted; of two accepted candidates that
\* overlap, the one that comes later from left to right is never emitted with
\* the other; an accepted candidate that no accepted candidate before it from
\* left to right overlaps is always emitted.
C4_LeftmostAcceptedWins ==
    pc = "segmented" =>
      LET raw == RawCandidates(text)
          accepted == Accepted(text)
      IN
        /\ \A d \in raw :
               (\E c \in accepted : Rank(c.kind) < Rank(d.kind) /\ Covers(c, d))
                   => ~Emitted(d)
        /\ \A c, d \in accepted :
               (c # d /\ Overlap(c, d) /\ Before(c, d) /\ Emitted(c)) => ~Emitted(d)
        /\ \A d \in accepted :
               (\A c \in accepted : ~(c # d /\ Overlap(c, d) /\ Before(c, d)))
                   => Emitted(d)

\* a link whose text holds a bold candidate: the link is emitted, the bold is not
C4_Witness ==
    /\ pc = "segmented"
    /\ LET accepted == Accepted(text) IN \E c, d \in accepted :
           /\ c.kind = "bold" /\ d.kind = "link"
           /\ Covers(d, c)
           /\ Emitted(d) /\ ~Emitted(c)

\* C30: parseInlineFormatting never returns an empty list; for a text that is
\* not empty every span has content, and the empty text gives one plain span
\* without content; when no candidate is accepted, so that no span of the
\* result is formatted, the result is the whole text as one plain span.
C30_NoEmptySpan ==
    pc = "segmented" =>
        /\ Len(result) >= 1
        /\ text # <<>> => \A k \in 1 .. Len(result) : result[k].content # <<>>
        /\ text = <<>> =>
              /\ Len(result) = 1
              /\ ~result[1].annotated
              /\ result[1].content = <<>>
        /\ (\/ CollectMatches(text) = <<>>
            \/ \A k \in 1 .. Len(result) : ~result[k].annotated) =>
              /\ Len(result) = 1
              /\ ~result[1].annotated /\ ~result[1].has_link
              /\ result[1].content = text

\* a segmented text of markers that match nothing, returned whole
C30_Witness ==
    /\ pc = "segmented"
    /\ text = <<"*", "*", "a", "_">>
    /\ Len(result) = 1
    /\ result[1].content = text

----------------------------------------------------------------------------
(* Properties of htmlToMarkdown (SpecHtml) *)

\* the characters of a string
Range(s) == {s[k] : k \in 1 .. Len(s)}

IgnoredTags == {"script", "style", "noscript", "template"}

RECURSIVE CharsOf(_, _, _)
\* the characters of the text nodes among cs and below them that lie inside an
\* ignored element (wanted = TRUE), or those of the text nodes and attribute
\* values that lie outside every ignored element (wanted = FALSE)
CharsOf(cs, inside, wanted) ==
    IF cs = <<>> THEN {}
    ELSE LET c == Head(cs)
         IN  (CASE c.nodeType = "text" -> IF inside = wanted THEN Range(c.data) ELSE {}
                [] c.nodeType = "element" ->
                       (IF ~inside /\ ~wanted
                        THEN UNION {Range(p[2]) : p \in c.attrs} ELSE {})
                       \cup CharsOf(c.children, inside \/ c.tag \in IgnoredTags, wanted)
                [] OTHER -> {})
             \cup CharsOf(Tail(cs), inside, wanted)

\* the scheme of a URI is read without regard to case
IsJavascriptUri(href) ==
    StartsWith(ToLowerCase(href), <<"j", "a", "v", "a", "s", "c", "r", "i", "p", "t", ":">>)

\* C5: a call of htmlToMarkdown on a string never raises; when building or
\* walking the tree fails, the call returns what stripHtml returns for the same
\* input: the text content of the tree, or, when stripHtml cannot build the
\* tree either, the raw string without its tags.
C5_FallbackNeverRaises ==
    (pc = "converted" /\ html.type = "string") =>
        /\ out # Throw
        /\ ReturnPath = "catch" =>
               /\ out = stripHtml(html.value, dom, domFail.strip)
               /\ ~domFail.strip => out = textContent(dom)
               /\ domFail.strip =>
                      /\ out = RegexStripFrom(html.value, 1)
                      /\ "<" \notin Range(out)

\* both the walk and the tree of stripHtml fail, and the tags are removed
C5_Witness ==
    /\ pc = "converted"
    /\ domFail.main = "traversal"
    /\ domFail.strip
    /\ out # <<>>
    /\ Len(out) < Len(html.value)

\* C8 (as claimed): the output of htmlToMarkdown has no leading and no trailing
\* whitespace, on every return path.
C8_OutputTrimmed == pc = "converted" => Trim(out) = out

\* C9 (as claimed): a character that the source has only inside script, style,
\* noscript or template elements does not occur in the output.
C9_IgnoredTextAbsent ==
    pc = "converted" =>
        \A c \in (CharsOf(dom.children, FALSE, TRUE) \ CharsOf(dom.children, FALSE, FALSE))
                     \ {" "} :
            c \notin Range(out)

\* C10 (as claimed): an anchor is emitted as its child output in brackets
\* followed by its href in parentheses exactly when it has an href that is not a
\* javascript: URI, and as its child output alone otherwise; no link target of
\* the output is a javascript: URI.
C10_AnchorByHref ==
    pc = "converted" =>
        /\ (ReturnPath = "try" /\ Len(dom.children) = 1 /\ dom.children[1].tag = "a") =>
               LET a == dom.children[1]
                   href == GetAttribute(a, "href")
                   C == processNode(a)
               IN  out = Trim(IF href # Null /\ ~IsJavascriptUri(href)
                              THEN <<"[">> \o C \o <<"]", "(">> \o href \o <<")">>
                              ELSE C)
        /\ \A k \in 0 .. Len(out) - 2 :
               At(out, k, <<"]", "(">>) => ~IsJavascriptUri(SliceFrom(out, k + 2))

\* the tree with the tags of its root and of the only child of its root
\* exchanged
SwapNesting(tree) ==
    LET inner == tree.children[1]
    IN  [tree EXCEPT !.tag = inner.tag,
                     !.children = <<[inner EXCEPT !.tag = tree.tag]>>]

\* bold right around italic, or italic right around bold
IsNestedEmphasis(tree) ==
    /\ tree.nodeType = "element"
    /\ Len(tree.children) = 1
    /\ tree.children[1].nodeType = "element"
    /\ \/ tree.tag \in {"strong", "b"} /\ tree.children[1].tag \in {"em", "i"}
       \/ tree.tag \in {"em", "i"} /\ tree.children[1].tag \in {"strong", "b"}

\* C14: for a source that is bold right around italic or italic right around
\* bold, the output is the child output x of the inner element inside three
\* asterisks on each side (trimmed, as every output of the try block), and the
\* source with the two elements exchanged gives the same output.
C14_BoldItalicCommute ==
    (/\ pc = "converted"
     /\ ReturnPath = "try"
     /\ Len(dom.children) = 1
     /\ IsNestedEmphasis(dom.children[1])) =>
        LET x == processNode(dom.children[1].children[1])
        IN  /\ out = Trim(<<"*", "*", "*">> \o x \o <<"*", "*", "*">>)
            /\ out = HtmlToMarkdownTry(Root(<<SwapNesting(dom.children[1])>>), FALSE)

\* italic around bold around a text, converted
C14_Witness ==
    /\ pc = "converted"
    /\ ReturnPath = "try"
    /\ Len(dom.children) = 1
    /\ IsNestedEmphasis(dom.children[1])
    /\ dom.children[1].tag = "em"
    /\ out = <<"*", "*", "*", "x", "*", "*", "*">>

\* the tags that processElement has a case for
KnownTags ==
    { "strong", "b", "em", "i", "code", "a", "br", "p", "div",
      "h1", "h2", "h3", "h4", "h5", "h6", "ul", "ol", "li", "pre", "blockquote",
      "hr", "script", "style", "noscript", "template", "img", "table",
      "tr", "td", "th", "thead", "tbody", "tfoot" }

\* every element among cs and below them has a tag without a case
OnlyUnknownTags(cs) ==
    LET below == DescendantsOf(cs)
    IN  \A k \in 1 .. Len(below) : below[k].tag \notin KnownTags

\* C15: a source that is one element with an unknown tag gives the output of
\* its children alone; when every element of the source has an unknown tag, at
\* any depth, the output is the text of the text nodes in document order and
\* nothing else (trimmed, as every output of the try block).
C15_UnknownTagPassesThrough ==
    (pc = "converted" /\ ReturnPath = "try") =>
        /\ (Len(dom.children) = 1 /\ dom.children[1].nodeType = "element"
                /\ dom.children[1].tag \notin KnownTags) =>
               out = HtmlToMarkdownTry(Root(dom.children[1].children), FALSE)
        /\ OnlyUnknownTags(dom.children) => out = Trim(TextContentOf(dom.children))

\* an unknown element in an unknown element around a text, converted
C15_Witness ==
    /\ pc = "converted"
    /\ ReturnPath = "try"
    /\ Len(dom.children) = 1
    /\ dom.children[1].tag = "span"
    /\ dom.children[1].children[1].tag = "span"
    /\ out = <<"y">>

\* C18: for null, undefined, the empty string and every value that is not a
\* string, htmlToMarkdown returns the empty string by the test of its argument,
\* before any tree is built: also where building a tree would raise, and
\* whatever text a tree built from the value would hold.
C18_GuardReturnsEmpty ==
    (pc = "converted" /\ (html.type # "string" \/ html.value = <<>>)) =>
        /\ out = <<>>
        /\ ReturnPath = "guard"

\* a number, where building a tree would raise, converted
C18_Witness ==
    /\ pc = "converted"
    /\ html.type = "number"
    /\ domFail.main = "construction"
    /\ domFail.strip
    /\ out = <<>>

----------------------------------------------------------------------------
(* Properties of processTable (SpecTable) *)

\* a pipe that no backslash precedes: one that separates cells
BarePipe(s, k) == s[k] = "|" /\ (k = 1 \/ s[k - 1] # "\\")

\* the elements of a set of numbers in ascending order
RECURSIVE Ascending(_)
Ascending(S) == IF S = {} THEN <<>> ELSE <<Min(S)>> \o Ascending(S \ {Min(S)})

\* where the rows of a table text end: a bare pipe that ends its line
RowEnds(s) == {k \in 1 .. Len(s) : BarePipe(s, k) /\ (k = Len(s) \/ s[k + 1] = NL)}

RECURSIVE RowsFrom(_, _)
\* the rows of a table text from position k, what follows the last row end
\* being a row of its own
RowsFrom(s, k) ==
    IF k > Len(s) THEN <<>>
    ELSE LET ends == {e \in RowEnds(s) : e >= k}
         IN  IF ends = {} THEN <<SubSeq(s, k, Len(s))>>
             ELSE <<SubSeq(s, k, Min(ends))>> \o RowsFrom(s, Min(ends) + 2)

OutputRows(s) == RowsFrom(s, 1)

\* the number of cells of an output row: one less than its bare pipes
CellCount(row) == Cardinality({k \in 1 .. Len(row) : BarePipe(row, k)}) - 1

\* the cells of an output row: what lies between two bare pipes, without the
\* space after the one and before the other
Cells(row) ==
    LET pipes == Ascending({k \in 1 .. Len(row) : BarePipe(row, k)})
    IN  [j \in 1 .. Len(pipes) - 1 |-> SubSeq(row, pipes[j] + 2, pipes[j + 1] - 2)]

\* the number of td and th children of every tr of the table that has one, in
\* document order
InputRowSizes(tableEl) ==
    LET trs == querySelectorAll(tableEl, "tr")
        sizes == [k \in 1 .. Len(trs) |->
                     Len(SelectSeq(ElementChildren(trs[k]),
                                   LAMBDA c : c.tag \in {"td", "th"}))]
    IN  SelectSeq(sizes, LAMBDA n : n > 0)

\* C7: the table that htmlToMarkdown emits has a header row, a separator row
\* and one row for each other input row that has a cell; each of them has as
\* many cells as the longest input row, the cells a row lacks being empty, and
\* a pipe of a cell is escaped, so that it does not count as a cell boundary.
C7_RowsHaveMaxCells ==
    pc = "converted" =>
        LET sizes == InputRowSizes(dom.children[1])
            rows == OutputRows(out)
        IN  IF sizes = <<>> THEN out = <<>>
            ELSE LET maxCells == Max({sizes[k] : k \in 1 .. Len(sizes)})
                 IN  /\ Len(rows) = Len(sizes) + 1
                     /\ \A r \in 1 .. Len(rows) : CellCount(rows[r]) = maxCells
                     /\ \A j \in 1 .. maxCells : Cells(rows[2])[j] = <<"-", "-", "-">>
                     /\ \A r \in 1 .. Len(sizes) :
                            \A j \in sizes[r] + 1 .. maxCells :
                                Cells(rows[IF r = 1 THEN 1 ELSE r + 1])[j] = <<>>

\* a table with a row shorter than another and a pipe in a cell
C7_Witness ==
    /\ pc = "converted"
    /\ LET sizes == InputRowSizes(dom.children[1])
       IN  \E j, k \in 1 .. Len(sizes) : sizes[j] < sizes[k]
    /\ Contains(out, <<"\\", "|">>)

\* the td and th children of every tr of the table that has one, in document
\* order
SurvivingRows(tableEl) ==
    LET trs == querySelectorAll(tableEl, "tr")
        cellsOf == [k \in 1 .. Len(trs) |->
                       SelectSeq(ElementChildren(trs[k]), LAMBDA c : c.tag \in {"td", "th"})]
    IN  SelectSeq(cellsOf, LAMBDA cs : cs # <<>>)

\* C16: the table emitted for a table element is empty when no tr has a td or
\* th; otherwise its first row holds the cells of the first tr that has one,
\* its second row holds '---' once for each column, and its other rows hold
\* the cells of the other tr elements that have one, in document order; a tr
\* without a cell gives no row and does not count for the number of columns.
C16_HeaderSeparatorRows ==
    pc = "converted" =>
        LET kept == SurvivingRows(dom.children[1])
            rows == OutputRows(out)
            columns == Max({0} \cup {Len(kept[r]) : r \in 1 .. Len(kept)})
            rowOf(r) == IF r = 1 THEN rows[1] ELSE rows[r + 1]
        IN  /\ kept = <<>> <=> out = <<>>
            /\ kept # <<>> =>
                   /\ Len(rows) = Len(kept) + 1
                   /\ Cells(rows[2]) = [j \in 1 .. columns |-> <<"-", "-", "-">>]
                   /\ \A r \in 1 .. Len(kept) :
                          \A j \in 1 .. Len(kept[r]) :
                              Cells(rowOf(r))[j] = EscapePipes(Trim(processNode(kept[r][j])))

\* a table whose first tr has no cell and whose second tr gives the header
C16_Witness ==
    /\ pc = "converted"
    /\ LET trs == querySelectorAll(dom.children[1], "tr")
       IN  /\ Len(trs) >= 2
           /\ ElementChildren(trs[1]) = <<>>
           /\ ElementChildren(trs[2]) # <<>>
    /\ Len(OutputRows(out)) = 2

----------------------------------------------------------------------------
(* Properties of the bullet branch (SpecBullets) *)

\* the first index from k on whose line is not of the kind, or the number of
\* lines: where a run of lines of one kind that starts at k ends
EndOfIndentedBullets(ls, k) ==
    Min({n \in k .. Len(ls) : n = Len(ls) \/ ~IsIndentedBullet(ls[n + 1])})

EndOfIndentedQuotes(ls, k) ==
    Min({n \in k .. Len(ls) : n = Len(ls) \/ ~IsIndentedQuote(ls[n + 1])})

\* the quote children of a block
QuoteChildren(b) == SelectSeq(b.children, LAMBDA c : c.type = "quote")

\* C11: in a pass over a bullet run, the blocks pushed are the items of the run
\* in order, one for each line that begins with a bullet marker; an item has a
\* quote child exactly when indented '>' lines follow it directly after its
\* nested bullets, that child is its only quote child and its last child, and
\* its text is those lines without their markers joined by line terminators;
\* every line of the run belongs to exactly one item, and the pass ends after
\* the lines of the last item, so that no later pass sees them.
C11_QuoteFollowsItsItem ==
    [][(passes' # passes /\ IsBullet(lines[i + 1])) =>
        LET items == Ascending({k \in i .. i' - 1 : IsBullet(lines[k + 1])})
            new == SubSeq(blocks', Len(blocks) + 1, Len(blocks'))
            quoteFrom(k) == EndOfIndentedBullets(lines, k + 1)
            quoteTo(k) == EndOfIndentedQuotes(lines, quoteFrom(k))
        IN  /\ Len(new) = Len(items)
            /\ items[1] = i
            /\ quoteTo(items[Len(items)]) = i'
            /\ \A j \in 1 .. Len(items) - 1 : quoteTo(items[j]) = items[j + 1]
            /\ \A j \in 1 .. Len(items) :
                   LET from == quoteFrom(items[j])
                       to == quoteTo(items[j])
                       quotes == QuoteChildren(new[j])
                   IN  /\ new[j].type = "bulleted_list_item"
                       /\ Len(new[j].children) = (from - items[j] - 1) + Len(quotes)
                       /\ Len(quotes) = IF to > from THEN 1 ELSE 0
                       /\ to > from =>
                              /\ new[j].children[Len(new[j].children)].type = "quote"
                              /\ quotes[1].src =
                                     Join([n \in 1 .. to - from |->
                                              StripIndentedQuote(lines[from + n])], <<NL>>)]_vars

\* a finished call on one run of two items, each with a quote of its own
C11_Witness ==
    /\ pc = "done"
    /\ Len(blocks) = 2
    /\ QuoteChildren(blocks[1]) # <<>>
    /\ QuoteChildren(blocks[2]) # <<>>
    /\ QuoteChildren(blocks[1])[1].src # QuoteChildren(blocks[2])[1].src

\* C27: the children of a bulleted_list_item are one level deep: nested
\* bulleted_list_item blocks without children of their own, then at most one
\* quote, which is the last child; the item has the children field exactly
\* when a nested bullet line or a nested quote line follows its line, and the
\* field is then never an empty list.
C27_ChildrenOneLevel ==
    [][(passes' # passes /\ IsBullet(lines[i + 1])) =>
        LET items == Ascending({k \in i .. i' - 1 : IsBullet(lines[k + 1])})
            new == SubSeq(blocks', Len(blocks) + 1, Len(blocks'))
        IN  /\ Len(new) = Len(items)
            /\ \A j \in 1 .. Len(new) :
                   LET item == new[j]
                       n == Len(item.children)
                       followed ==
                           /\ items[j] + 1 < Len(lines)
                           /\ \/ IsIndentedBullet(lines[items[j] + 2])
                              \/ IsIndentedQuote(lines[items[j] + 2])
                   IN  /\ item.has_children <=> followed
                       /\ item.has_children <=> n > 0
                       /\ \A c \in 1 .. n :
                              /\ ~item.children[c].has_children
                              /\ item.children[c].children = <<>>
                              /\ item.children[c].type \in {"bulleted_list_item", "quote"}
                              /\ item.children[c].type = "quote" => c = n]_vars

\* a finished call on an item with a nested bullet and then a quote, and an
\* item after it with nothing nested
C27_Witness ==
    /\ pc = "done"
    /\ Len(blocks) = 2
    /\ blocks[1].has_children
    /\ Len(blocks[1].children) = 2
    /\ blocks[1].children[1].type = "bulleted_list_item"
    /\ blocks[1].children[2].type = "quote"
    /\ ~blocks[2].has_children
    /\ blocks[2].type = "bulleted_list_item"

----------------------------------------------------------------------------
(* Properties of mapLanguage (SpecLang) *)

\* the tag of the opening fence as the code branch hands it to mapLanguage
GivenLanguage ==
    LET tag == Trim(SliceFrom(lines[1], 3)) IN IF tag = <<>> THEN PlainText ELSE tag

\* C12: the language of a code block is a member of the vocabulary: the
\* lower-cased tag with its alias replaced when that is in the vocabulary, and
\* 'plain text' for every other tag; every alias target is in the vocabulary.
C12_LanguageInVocabulary ==
    /\ \A a \in Aliases : LanguageAlias(a) \in validLanguages
    /\ \A k \in 1 .. Len(blocks) :
           blocks[k].type = "code" =>
               LET lower == ToLowerCase(GivenLanguage)
                   form == IF lower \in Aliases THEN LanguageAlias(lower) ELSE lower
               IN  /\ blocks[k].language \in validLanguages
                   /\ form \in validLanguages => blocks[k].language = form
                   /\ form \notin validLanguages => blocks[k].language = PlainText

\* an alias in upper case is mapped to its target
C12_Witness ==
    /\ pc = "done"
    /\ Len(blocks) = 1
    /\ GivenLanguage = <<"J", "S">>
    /\ blocks[1].language = <<"j", "a", "v", "a", "s", "c", "r", "i", "p", "t">>

----------------------------------------------------------------------------
(* Properties of processList (SpecList) *)

\* the numbers of the items of a list as they are written
ItemNumbers == <<"1", "2", "3", "4", "5", "6", "7", "8", "9">>

\* C17: the output for a list is one line for each li child of the list, in
\* order: the k-th li child, counted among the li children alone, gives the
\* line 'k. ' (in an ol) or '- ' (in a ul) followed by its trimmed output; a
\* child that is not an li gives nothing and takes no number.
C17_ItemsNumberedInOrder ==
    pc = "converted" =>
        LET list == dom.children[1]
            items == SelectSeq(list.children, LAMBDA c : c.tag = "li")
            prefix(k) == IF list.tag = "ol" THEN <<ItemNumbers[k], ".", " ">>
                         ELSE <<"-", " ">>
            itemLines == [k \in 1 .. Len(items) |->
                             prefix(k) \o Trim(processNode(items[k])) \o <<NL>>]
        IN  out = Trim(Concat(itemLines))

\* an ordered list that begins with an element that is not an item
C17_Witness ==
    /\ pc = "converted"
    /\ dom.children[1].tag = "ol"
    /\ Len(dom.children[1].children) = 3
    /\ dom.children[1].children[1].tag = "span"
    /\ out = <<"1", ".", " ", "a", NL, "2", ".", " ", "b">>

----------------------------------------------------------------------------
(* Properties of the calls on table recent_pages (SpecRecent) *)

\* the rows of a table or of a result, as a set
Rows(table) == {table[k] : k \in 1 .. Len(table)}

\* the step that completes a call of the operation
Completes(op) == call'.op = op /\ call'.n = call.n + 1

\* C22: after every completed upsertRecentPage call the store holds at most 50
\* rows: the row of the call and the rows it held before, unchanged, less the
\* rows pruned, none of which was used later than a row kept; getRecentPages
\* returns every row of the store once, no row before a row used later.
C22_StoreKeepsMostRecent ==
    [][/\ Completes("upsertRecentPage") =>
            LET before == Rows(recent_pages)
                after == Rows(recent_pages')
                others == {r \in before : r.page_id # call'.args.pageId}
                pruned == others \ after
            IN  /\ Len(recent_pages') = Min({RecentLimit, Cardinality(others) + 1})
                /\ \A r \in after : r.page_id = call'.args.pageId \/ r \in others
                /\ \A r \in pruned, q \in after : r.last_used <= q.last_used
       /\ Completes("getRecentPages") =>
            /\ Len(pages') = Len(recent_pages)
            /\ Len(pages') <= RecentLimit
            /\ {[page_id |-> r.page_id, page_title |-> r.page_title,
                 last_used |-> r.last_used] : r \in Rows(recent_pages)} = Rows(pages')
            /\ \A j, k \in 1 .. Len(pages') :
                   j < k => pages'[j].last_used >= pages'[k].last_used
      ]_vars

\* a full store took a new page a second later and lost its oldest page, and
\* getRecentPages returned the fifty rows left
C22_Witness ==
    /\ call.op = "getRecentPages"
    /\ Len(pages) = RecentLimit
    /\ pages[1].page_id = RecentLimit + 1
    /\ pages[1].last_used > pages[2].last_used
    /\ \A k \in 1 .. Len(pages) : pages[k].page_id # 1
    /\ pages[RecentLimit].page_id = 2

\* C23: after upsertRecentPage(p, t) completes, page p is in the store exactly
\* once, with title t, and a getRecentPages call that follows returns it first.
C23_UpsertedPageComesFirst ==
    [][/\ Completes("upsertRecentPage") =>
            \E k \in 1 .. Len(recent_pages') :
                /\ recent_pages'[k].page_id = call'.args.pageId
                /\ recent_pages'[k].page_title = call'.args.pageTitle
                /\ \A j \in 1 .. Len(recent_pages') :
                       recent_pages'[j].page_id = call'.args.pageId => j = k
       /\ (Completes("getRecentPages") /\ call.op = "upsertRecentPage") =>
            /\ Len(pages') >= 1
            /\ pages'[1].page_id = call.args.pageId
            /\ pages'[1].page_title = call.args.pageTitle
      ]_vars

----------------------------------------------------------------------------
(* Properties of the API routes (SpecApi) *)

\* the operations CLAUDE.md allows on Notion
AllowedOperations == {"pages.retrieve", "blocks.children.list", "blocks.children.append"}

\* the blocks of sequence s that were among the blocks of sequence old
Surviving(s, old) == SelectSeq(s, LAMBDA b : \E k \in 1 .. Len(old) : old[k] = b)

\* C24: over any sequence of API requests Notion receives only pages.retrieve,
\* blocks.children.list and blocks.children.append, and the blocks a page held
\* stay, unchanged and in their order; an insert that is answered 200 leaves
\* the first block of the page first, the new blocks right after it and the
\* other blocks after them, and on an empty page leaves the new blocks alone.
C24_NotionAppendOnly ==
    [][/\ \A k \in 1 .. Len(notion'.log) : notion'.log[k].op \in AllowedOperations
       /\ DOMAIN notion'.pages = DOMAIN notion.pages
       /\ \A p \in DOMAIN notion.pages :
              /\ notion'.pages[p].title = notion.pages[p].title
              /\ Surviving(notion'.pages[p].children, notion.pages[p].children)
                     = notion.pages[p].children
       /\ (call'.op = "insert" /\ call'.n = call.n + 1 /\ call'.result = [status |-> 200]) =>
              LET old == notion.pages[call.args.pageId].children
                  new == notion'.pages[call.args.pageId].children
                  m == Len(blocks)
                  first == IF old = <<>> THEN 0 ELSE 1
              IN  /\ Len(new) = Len(old) + m
                  /\ SubSeq(new, 1, first) = SubSeq(old, 1, first)
                  /\ \A k \in 1 .. m :
                         /\ new[first + k].type = blocks[k].type
                         /\ \A j \in 1 .. Len(old) : old[j].id # new[first + k].id
                  /\ SubSeq(new, first + m + 1, Len(new)) = SubSeq(old, first + 1, Len(old))
                  /\ \A p \in DOMAIN notion.pages \ {call.args.pageId} :
                         notion'.pages[p] = notion.pages[p]
      ]_vars

\* an insert put a bullet between the paragraph and the child page of a page
C24_Witness ==
    /\ call.op = "insert" /\ call.result = [status |-> 200] /\ call.args.pageId = "p2"
    /\ Len(notion.pages["p2"].children) = 3
    /\ notion.pages["p2"].children[1].type = "paragraph"
    /\ notion.pages["p2"].children[2].type = "bulleted_list_item"
    /\ notion.pages["p2"].children[2].id.req > 0
    /\ notion.pages["p2"].children[3].type = "child_page"
    /\ notion.log[Len(notion.log)].op = "blocks.children.append"
    /\ notion.log[Len(notion.log)].after = [req |-> 0, k |-> 1]

----------------------------------------------------------------------------
(* Properties of the sessions and of authMiddleware (SpecAuth) *)

\* the instant that a text of toISOString names
InstantOf(iso) ==
    CHOOSE at \in {Plus(c, SESSION_DURATION) : c \in ClockInstants} :
        toISOString(at) = iso

\* the session exists and the instant of its expiry, 30 days after its
\* creation, is still to come
Unexpired(table, sessionId, at) ==
    \E r \in table : r.id = sessionId /\ Later(InstantOf(r.expires_at), at)

\* C25: validateSession returns true exactly when a session of the given id
\* exists whose expiry instant, 30 days after its creation, is strictly later
\* than the current time; from that instant on it returns false.
C25_ValidUntilExpiry ==
    [][Completes("validateSession") =>
          (call'.result.returned <=> Unexpired(sessions, call'.args.sessionId, now))]_vars

\* the text after the first ':' of credentials that hold one
AfterFirstColon(credentials) ==
    LET first == CHOOSE k \in 1 .. Len(credentials) :
                    /\ credentials[k] = ":"
                    /\ \A j \in 1 .. k - 1 : credentials[j] # ":"
    IN  SubSeq(credentials, first + 1, Len(credentials))

\* the request carries a Basic Authorization header whose decoded password
\* is the password of the deployment
HasBasicPassword(req, password) ==
    /\ StartsWith(req.authorization, <<"B", "a", "s", "i", "c", " ">>)
    /\ LET decoded == atob(SliceFrom(req.authorization, 6))
       IN  /\ decoded.ok
           /\ \E k \in 1 .. Len(decoded.value) : decoded.value[k] = ":"
           /\ AfterFirstColon(decoded.value) = password

\* the request carries a session cookie for which validateSession is true
HasValidCookie(req, table, at) ==
    req.cookie # 0 /\ validateSession(table, req.cookie, at)

\* C26: the middleware runs the next handler only for a request with a valid
\* session cookie or with a Basic header whose password, the text after the
\* first ':', is AUTH_PASSWORD; every other request gets 401 with a
\* WWW-Authenticate header and next is not run; a session is created and its
\* cookie set only on the path of a successful Basic authentication.
C26_OnlyAuthenticatedPass ==
    [][Completes("authMiddleware") =>
          LET byCookie == HasValidCookie(request', sessions, now)
              byPassword == HasBasicPassword(request', call'.args.AUTH_PASSWORD)
          IN  /\ response'.next <=> (byCookie \/ byPassword)
              /\ ~response'.next =>
                    /\ response'.status = 401
                    /\ "WWW-Authenticate" \in response'.headers
              /\ (sessions' # sessions \/ response'.setCookie # 0) =>
                    /\ ~byCookie /\ byPassword
                    /\ \E r \in sessions' \ sessions :
                          /\ sessions' = sessions \cup {r}
                          /\ response'.setCookie = r.id
              /\ (~byCookie /\ byPassword) => sessions' # sessions]_vars

\* a request with the cookie of a session that is valid no more and with the
\* credentials 'u:pw' was let through with the cookie of a new session
C26_Witness ==
    /\ call.op = "authMiddleware"
    /\ request.cookie = 1
    /\ response.deleteCookie
    /\ response.next
    /\ response.setCookie = 2
    /\ \E r \in sessions : r.id = 2

----------------------------------------------------------------------------
(* Properties of the composed calls (SpecPipeline) *)

\* C28: markdownToBlocks(htmlToMarkdown(html)) returns for every HTML input,
\* also for one with an h4, h5 or h6 heading, whose line begins with four to
\* six '#': the loop over the lines of the text htmlToMarkdown returned has
\* fewer lines left after each pass, so that it ends.
C28_PipelineReturns ==
    [][(pc = "loop" /\ pc' = "loop" /\ markdown = out) =>
          Len(lines) - i' < Len(lines) - i]_vars

----------------------------------------------------------------------------
(* Properties of the captured content (SpecCapture) *)

\* C29: the content formatCapturedContent made of a captured text m, a title
\* and a URL tokenizes to one top-level block, a bulleted_list_item; it has no
\* children when m is blank and otherwise one child, a quote whose text before
\* segmentation is the lines of m joined by line terminators, each unchanged.
C29_CaptureIsOneBullet ==
    (pc = "done" /\ call.op = "formatCapturedContent") =>
        /\ Len(blocks) = 1
        /\ blocks[1].type = "bulleted_list_item"
        /\ Trim(out) = <<>> => ~blocks[1].has_children /\ blocks[1].children = <<>>
        /\ Trim(out) # <<>> =>
              /\ blocks[1].has_children
              /\ Len(blocks[1].children) = 1
              /\ blocks[1].children[1].type = "quote"
              /\ blocks[1].children[1].src = Join(SplitLines(out), <<NL>>)

\* a finished call on the content made of a text of three lines: a line like
\* a heading of level four, an empty line and an indented line
C29_Witness ==
    /\ pc = "done"
    /\ call.op = "formatCapturedContent"
    /\ call.args.pageTitle = <<"a", "[", "b", "]">>
    /\ out = <<"#", "#", "#", "#", " ", "h", NL, NL, " ", "b">>
    /\ blocks[1].children[1].src = out

====
